---- MODULE Spec2Model ----
(***************************************************************************)
(* A model of the OpenChoreo backstage plugins' workflow-run status        *)
(* derivation (three copies of the same rule list), of the platform        *)
(* environment service's grouping of environments by data plane and its    *)
(* batched aggregations over components, and of the log and event lookups. *)
(*                                                                         *)
(* JavaScript values: an absent string-valued field is the sentinel        *)
(* `undefined`; an absent object or array is the empty tuple <<>> and a    *)
(* present one is the one-element tuple <<v>>.  A thrown TypeError is the  *)
(* label `TypeError`.                                                      *)
(***************************************************************************)
EXTENDS Integers, Sequences, FiniteSets, TLC

VARIABLES
    run,        \* the raw K8s-style WorkflowRun handed to the status derivation
    caller,     \* which copy of the derivation has run: "none" before any
    derived,    \* its result: [status, step], step naming the rule that fired
    apiEnvironments,    \* platform API: per namespace, the environment items
    apiDataplanes,      \* platform API: per namespace, the data plane items
    settled,            \* which of the two parallel fetches have resolved
    dataplanes,         \* result of fetchAllDataplanes
    environments,       \* result of fetchAllEnvironments
    environmentsByDataPlane,    \* the Map built by fetchDataplanesWithEnvironments
    dataplanesWithEnvironments, \* its return value
    returned,           \* fetchDataplanesWithEnvironments has returned
    fn,                 \* which batched aggregation is running
    components,         \* its input: the component list
    apiBindings,        \* platform API: per component, the pages of its bindings
    batchStart,         \* the batch loop's index i
    pc,                 \* where the aggregation stands: loop / await / returned
    inflight,           \* per dispatched, unsettled component: its open request
    done,               \* the components whose promise has settled
    batchCounts,        \* the settled promises' values in the current batch
    componentCountsByEnvironment,   \* accumulator: Map key -> count
    deployedComponents,             \* accumulator: Set of component keys
    healthyWorkloadCount,           \* accumulator: number
    warnings,           \* logger.warn calls: the component index of each
    result,             \* the value the aggregation returned
    lookupInput,        \* a log or event lookup: its arguments and the answers
                        \* the platform and observer APIs will give
    lookupCaller,       \* which lookup has run: "none" before any
    outcome,            \* what it returned or threw
    calls,              \* two aggregation calls on one service instance:
                        \* each call's method, input, position and locals
    accumulators,       \* the accumulators the calls created, by their owner
    authzApi,           \* platform API: the role bindings it held at first and
                        \* holds now, and the requests it will fail
    forceDelete,        \* a force-delete call: arguments, position, locals
    deleteRequests,     \* the DELETE requests sent so far, in order
    runsApi,            \* platform API: the workflow runs of a namespace
    runCall,            \* the last list, get or trigger of runs and its outcome
    componentApi,       \* platform API: the stored component
    updates,            \* two updates of the component: arguments, position,
                        \* the component each read, sent and replaced
    actionInput,        \* the ComponentType creation action: its input, the
                        \* configuration and the answers it will get
    actionRun           \* its position, requests, error log, outputs, throw

statusVars == <<run, caller, derived>>
groupVars == <<apiEnvironments, apiDataplanes, settled, dataplanes, environments,
               environmentsByDataPlane, dataplanesWithEnvironments, returned>>
aggVars == <<fn, components, apiBindings, batchStart, pc, inflight, done, batchCounts,
             componentCountsByEnvironment, deployedComponents,
             healthyWorkloadCount, warnings, result>>
lookupVars == <<lookupInput, lookupCaller, outcome>>
callVars == <<calls, accumulators>>
authzVars == <<authzApi, forceDelete, deleteRequests>>
runVars == <<runsApi, runCall>>
updateVars == <<componentApi, updates>>
actionVars == <<actionInput, actionRun>>
serviceVars == <<callVars, authzVars, runVars, updateVars, actionVars>>
vars == <<statusVars, groupVars, aggVars, lookupVars, serviceVars>>

(***************************************************************************)
(* Bounds of the model.                                                    *)
(***************************************************************************)
MaxConds == 2
MaxTasks == 2
MaxEnvs == 2        \* environments per namespace
MaxDPs == 1         \* data planes per namespace

(***************************************************************************)
(* JavaScript helpers.                                                     *)
(***************************************************************************)
undefined == "<undefined>"
TypeError == "<TypeError>"

\* JS truthiness of a string-or-undefined value: '' and undefined are falsy.
truthy(v) == v # undefined /\ v # ""

SeqsUpTo(S, n) == UNION {[1..k -> S] : k \in 0..n}

\* tasks.some(t => t.phase === 'Failed' || t.phase === 'Error')
someFailedOrError(tasks) ==
    \E i \in 1..Len(tasks) : tasks[i].phase = "Failed" \/ tasks[i].phase = "Error"
\* tasks.every(t => t.phase === 'Succeeded'): true of the empty array
everySucceeded(tasks) ==
    \A i \in 1..Len(tasks) : tasks[i].phase = "Succeeded"
\* tasks.some(t => t.phase === 'Running')
someRunning(tasks) ==
    \E i \in 1..Len(tasks) : tasks[i].phase = "Running"

\* Variant: the last condition of type 'Ready' instead of the first.
findLastReady(conditions) ==
    IF \E i \in 1..Len(conditions) : conditions[i].type = "Ready"
    THEN LET i == CHOOSE j \in 1..Len(conditions) :
                      /\ conditions[j].type = "Ready"
                      /\ \A k \in (j + 1)..Len(conditions) :
                            conditions[k].type # "Ready"
         IN <<conditions[i]>>
    ELSE <<>>

\* Array.prototype.find(c => c.type === 'Ready'): the first match, <<c>>, or
\* <<>> (undefined) when there is none.
findReady(conditions) ==
    IF \E i \in 1..Len(conditions) : conditions[i].type = "Ready"
    THEN LET i == CHOOSE j \in 1..Len(conditions) :
                      /\ conditions[j].type = "Ready"
                      /\ \A k \in 1..(j - 1) : conditions[k].type # "Ready"
         IN <<conditions[i]>>
    ELSE <<>>

\* run.status?.completedAt, run.status?.startedAt
completedAtOf(r) == IF r.status = <<>> THEN undefined ELSE r.status[1].completedAt
startedAtOf(r) == IF r.status = <<>> THEN undefined ELSE r.status[1].startedAt
\* run.status?.conditions and run.status?.tasks: <<>> when absent, <<array>> else
conditionsOf(r) == IF r.status = <<>> THEN <<>> ELSE r.status[1].conditions
tasksOf(r) == IF r.status = <<>> THEN <<>> ELSE r.status[1].tasks
\* x ?? []
orEmpty(x) == IF x = <<>> THEN <<>> ELSE x[1]

(***************************************************************************)
(* The status rules, one translation per copy in the source.  Each returns *)
(* the status string and the rule that produced it: 1a/1b/1c with          *)
(* completedAt set, 2 from the Ready condition, 3a..3e from the task       *)
(* phases and startedAt.                                                   *)
(***************************************************************************)
Out(s, st) == [status |-> s, step |-> st]

\* readyCondition?.reason
reasonOf(readyCondition) ==
    IF readyCondition = <<>> THEN undefined ELSE readyCondition[1].reason

\* ---- openchoreo-backend: transformComponentWorkflowRun ----
backendCompletedStatus(readyCondition, tasks) ==
    IF someFailedOrError(tasks)
    THEN Out("Failed", "1a")
    ELSE LET reason == reasonOf(readyCondition)
         IN IF truthy(reason) /\ reason # "Running" /\ reason # "Pending"
            THEN Out(reason, "1b")
            ELSE Out("Succeeded", "1c")

\* Variant: the Ready condition's status alone decides, its reason is ignored.
backendReadyStatusOnly(readyCondition) ==
    IF readyCondition.status = "True"
    THEN Out("Succeeded", "2")
    ELSE Out("Running", "2")

backendReadyStatus(readyCondition) ==
    IF truthy(readyCondition.reason)
    THEN Out(readyCondition.reason, "2")
    ELSE IF readyCondition.status = "True"
         THEN Out("Succeeded", "2")
         ELSE Out("Running", "2")

backendFallbackStatus(tasks, startedAt) ==
    IF someFailedOrError(tasks) THEN Out("Failed", "3a")
    ELSE IF Len(tasks) > 0 /\ everySucceeded(tasks) THEN Out("Succeeded", "3b")
    ELSE IF someRunning(tasks) THEN Out("Running", "3c")
    ELSE IF truthy(startedAt) THEN Out("Running", "3d")
    ELSE Out("Pending", "3e")

\* Variant: the Ready condition is consulted before completedAt.
transformConditionFirst(r) ==
    LET readyCondition == findReady(orEmpty(conditionsOf(r)))
        tasks == orEmpty(tasksOf(r))
    IN IF readyCondition # <<>>
       THEN backendReadyStatus(readyCondition[1])
       ELSE IF truthy(completedAtOf(r))
            THEN backendCompletedStatus(readyCondition, tasks)
            ELSE backendFallbackStatus(tasks, startedAtOf(r))

\* Variant: the Ready condition is trusted only when there are tasks.
transformReadyNeedsTasks(r) ==
    LET readyCondition == findReady(orEmpty(conditionsOf(r)))
        tasks == orEmpty(tasksOf(r))
    IN IF truthy(completedAtOf(r))
       THEN backendCompletedStatus(readyCondition, tasks)
       ELSE IF readyCondition # <<>> /\ Len(tasks) > 0
            THEN backendReadyStatus(readyCondition[1])
            ELSE backendFallbackStatus(tasks, startedAtOf(r))

transformComponentWorkflowRun(r) ==
    LET readyCondition == findReady(orEmpty(conditionsOf(r)))
        tasks == orEmpty(tasksOf(r))
    IN IF truthy(completedAtOf(r))
       THEN backendCompletedStatus(readyCondition, tasks)
       ELSE IF readyCondition # <<>>
            THEN backendReadyStatus(readyCondition[1])
            ELSE backendFallbackStatus(tasks, startedAtOf(r))

\* ---- openchoreo-ci-backend: deriveWorkflowRunStatus ----
\* Variant: the condition's reason is consulted before the task phases.
ciCompletedReasonFirst(readyCondition, tasks) ==
    LET reason == reasonOf(readyCondition)
    IN IF truthy(reason) /\ reason # "Running" /\ reason # "Pending"
       THEN Out(reason, "1b")
       ELSE IF someFailedOrError(tasks)
            THEN Out("Failed", "1a")
            ELSE Out("Succeeded", "1c")

ciCompletedStatus(readyCondition, tasks) ==
    IF someFailedOrError(tasks)
    THEN Out("Failed", "1a")
    ELSE LET reason == reasonOf(readyCondition)
         IN IF truthy(reason) /\ reason # "Running" /\ reason # "Pending"
            THEN Out(reason, "1b")
            ELSE Out("Succeeded", "1c")

\* Variant: the condition's status is consulted before its reason.
ciReadyStatusFirst(readyCondition) ==
    IF readyCondition.status = "True"
    THEN Out("Succeeded", "2")
    ELSE IF truthy(readyCondition.reason)
         THEN Out(readyCondition.reason, "2")
         ELSE Out("Running", "2")

ciReadyStatus(readyCondition) ==
    IF truthy(readyCondition.reason)
    THEN Out(readyCondition.reason, "2")
    ELSE IF readyCondition.status = "True"
         THEN Out("Succeeded", "2")
         ELSE Out("Running", "2")

ciFallbackStatus(tasks, startedAt) ==
    IF someFailedOrError(tasks) THEN Out("Failed", "3a")
    ELSE IF everySucceeded(tasks) /\ Len(tasks) > 0 THEN Out("Succeeded", "3b")
    ELSE IF someRunning(tasks) THEN Out("Running", "3c")
    ELSE IF truthy(startedAt) THEN Out("Running", "3d")
    ELSE Out("Pending", "3e")

\* Variant: run.status.tasks without the `?? []` default: some() of undefined
\* throws.
deriveNoTasksDefault(r) ==
    LET readyCondition == findReady(orEmpty(conditionsOf(r)))
    IN IF tasksOf(r) = <<>>
       THEN Out(TypeError, "throw")
       ELSE LET tasks == tasksOf(r)[1]
            IN IF truthy(completedAtOf(r))
               THEN ciCompletedStatus(readyCondition, tasks)
               ELSE IF readyCondition # <<>>
                    THEN ciReadyStatus(readyCondition[1])
                    ELSE ciFallbackStatus(tasks, startedAtOf(r))

deriveWorkflowRunStatus(r) ==
    LET readyCondition == findReady(orEmpty(conditionsOf(r)))
        tasks == orEmpty(tasksOf(r))
    IN IF truthy(completedAtOf(r))
       THEN ciCompletedStatus(readyCondition, tasks)
       ELSE IF readyCondition # <<>>
            THEN ciReadyStatus(readyCondition[1])
            ELSE ciFallbackStatus(tasks, startedAtOf(r))

\* ---- scaffolder-backend-module-openchoreo: deriveWorkflowRunStatus ----
\* Variant: any reason is passed through, in-progress ones included.
genericCompletedAnyReason(readyCondition, tasks) ==
    IF someFailedOrError(tasks)
    THEN Out("Failed", "1a")
    ELSE LET reason == reasonOf(readyCondition)
         IN IF truthy(reason)
            THEN Out(reason, "1b")
            ELSE Out("Succeeded", "1c")

genericCompletedStatus(readyCondition, tasks) ==
    IF someFailedOrError(tasks)
    THEN Out("Failed", "1a")
    ELSE LET reason == reasonOf(readyCondition)
         IN IF truthy(reason) /\ reason # "Running" /\ reason # "Pending"
            THEN Out(reason, "1b")
            ELSE Out("Succeeded", "1c")

genericReadyStatus(readyCondition) ==
    IF truthy(readyCondition.reason)
    THEN Out(readyCondition.reason, "2")
    ELSE IF readyCondition.status = "True"
         THEN Out("Succeeded", "2")
         ELSE Out("Running", "2")

\* Variant: every() without the length test (true of the empty list).
genericFallbackVacuousEvery(tasks, startedAt) ==
    IF someFailedOrError(tasks) THEN Out("Failed", "3a")
    ELSE IF everySucceeded(tasks) THEN Out("Succeeded", "3b")
    ELSE IF someRunning(tasks) THEN Out("Running", "3c")
    ELSE IF truthy(startedAt) THEN Out("Running", "3d")
    ELSE Out("Pending", "3e")

genericFallbackStatus(tasks, startedAt) ==
    IF someFailedOrError(tasks) THEN Out("Failed", "3a")
    ELSE IF everySucceeded(tasks) /\ Len(tasks) > 0 THEN Out("Succeeded", "3b")
    ELSE IF someRunning(tasks) THEN Out("Running", "3c")
    ELSE IF truthy(startedAt) THEN Out("Running", "3d")
    ELSE Out("Pending", "3e")

deriveWorkflowRunStatusGeneric(r) ==
    LET conditions == orEmpty(conditionsOf(r))
        readyCondition == findReady(conditions)
        tasks == orEmpty(tasksOf(r))
    IN IF truthy(completedAtOf(r))
       THEN genericCompletedStatus(readyCondition, tasks)
       ELSE IF readyCondition # <<>>
            THEN genericReadyStatus(readyCondition[1])
            ELSE genericFallbackStatus(tasks, startedAtOf(r))

(***************************************************************************)
(* The run records the derivation is applied to.                           *)
(***************************************************************************)
Reasons == {undefined, "", "Running", "Pending", "Cancelled"}
PhaseList == <<undefined, "Pending", "Running", "Succeeded", "Failed", "Error">>
Phases == {PhaseList[i] : i \in 1..Len(PhaseList)}
Timestamps == {undefined, "2024-01-01T00:00:00Z"}

Cond(t, st, rs) == [type |-> t, status |-> st, reason |-> rs]

\* Ready conditions: each reason with one status, and every status with an
\* absent or empty reason (the only case in which the status is read).
ReadyConditions ==
    {Cond("Ready", "False", "Running"), Cond("Ready", "False", "Pending"),
     Cond("Ready", "True", "Cancelled"),
     Cond("Ready", "True", undefined), Cond("Ready", "False", undefined),
     Cond("Ready", undefined, undefined),
     Cond("Ready", "True", ""), Cond("Ready", "False", "")}
OtherConditions == {Cond("Progressing", "True", "Cancelled")}
Conditions == ReadyConditions \cup OtherConditions
Tasks == [phase : Phases]

Optional(S) == {<<>>} \cup {<<x>> : x \in S}

\* Task lists are drawn in one order of their phases: the derivation reads
\* them through some(), every() and length only.
PhaseRank(p) == CHOOSE i \in 1..Len(PhaseList) : PhaseList[i] = p
TaskLists ==
    {ts \in SeqsUpTo(Tasks, MaxTasks) :
        \A i \in 1..(Len(ts) - 1) :
            PhaseRank(ts[i].phase) <= PhaseRank(ts[i + 1].phase)}

RunStatuses ==
    [completedAt : Timestamps, startedAt : Timestamps,
     conditions : Optional(SeqsUpTo(Conditions, MaxConds)),
     tasks : Optional(TaskLists)]

Runs == [status : Optional(RunStatuses)]

NoResult == Out("", "none")

(***************************************************************************)
(* Idle values: what the variables of one part hold while the other part   *)
(* runs.                                                                   *)
(***************************************************************************)
StatusIdle ==
    /\ run = [status |-> <<>>]
    /\ caller = "idle"
    /\ derived = NoResult

GroupIdle ==
    /\ apiEnvironments = <<>>
    /\ apiDataplanes = <<>>
    /\ settled = {}
    /\ dataplanes = <<>>
    /\ environments = <<>>
    /\ environmentsByDataPlane = <<>>
    /\ dataplanesWithEnvironments = <<>>
    /\ returned = FALSE

AggIdle ==
    /\ fn = "idle"
    /\ components = <<>>
    /\ apiBindings = <<>>
    /\ batchStart = 0
    /\ pc = "idle"
    /\ inflight = <<>>
    /\ done = {}
    /\ batchCounts = <<>>
    /\ componentCountsByEnvironment = <<>>
    /\ deployedComponents = {}
    /\ healthyWorkloadCount = 0
    /\ warnings = <<>>
    /\ result = <<>>

LookupIdle ==
    /\ lookupInput = <<>>
    /\ lookupCaller = "idle"
    /\ outcome = <<>>

CallsIdle ==
    /\ calls = <<>>
    /\ accumulators = <<>>

AuthzIdle ==
    /\ authzApi = <<>>
    /\ forceDelete = <<>>
    /\ deleteRequests = <<>>

RunsIdle ==
    /\ runsApi = <<>>
    /\ runCall = <<>>

UpdatesIdle ==
    /\ componentApi = <<>>
    /\ updates = <<>>

ActionIdle ==
    /\ actionInput = <<>>
    /\ actionRun = <<>>

ServicesIdle == CallsIdle /\ AuthzIdle /\ RunsIdle /\ UpdatesIdle /\ ActionIdle

(***************************************************************************)
(* The status specification: a run record arrives; one of the three        *)
(* services derives its status.                                            *)
(***************************************************************************)
InitStatus ==
    /\ run \in Runs
    /\ caller = "none"
    /\ derived = NoResult
    /\ GroupIdle
    /\ AggIdle
    /\ LookupIdle
    /\ ServicesIdle

BackendTransform ==
    /\ caller = "none"
    /\ caller' = "backend"
    /\ derived' = transformComponentWorkflowRun(run)
    /\ UNCHANGED <<run, groupVars, aggVars, lookupVars, serviceVars>>

CiDerive ==
    /\ caller = "none"
    /\ caller' = "ci"
    /\ derived' = deriveWorkflowRunStatus(run)
    /\ UNCHANGED <<run, groupVars, aggVars, lookupVars, serviceVars>>

GenericDerive ==
    /\ caller = "none"
    /\ caller' = "generic"
    /\ derived' = deriveWorkflowRunStatusGeneric(run)
    /\ UNCHANGED <<run, groupVars, aggVars, lookupVars, serviceVars>>

NextStatus == BackendTransform \/ CiDerive \/ GenericDerive

SpecStatus == InitStatus /\ [][NextStatus]_vars

(***************************************************************************)
(* The same services applied to the runs that carry any conditions         *)
(* sequence and at most one task: the runs on which the choice of the      *)
(* Ready condition is examined.                                            *)
(***************************************************************************)
InitConditions ==
    /\ InitStatus
    /\ run.status # <<>> => Len(orEmpty(run.status[1].tasks)) <= 1

SpecConditions == InitConditions /\ [][NextStatus]_vars

(***************************************************************************)
(* PlatformEnvironmentInfoService.fetchDataplanesWithEnvironments.         *)
(* Names are strings over single characters, written as tuples, so that    *)
(* the composite key `${namespaceName}/${name}` is built by concatenation  *)
(* as the template literal builds it.                                      *)
(***************************************************************************)
NsA == <<"a">>
NsAB == <<"a", "/", "b">>
DpC == <<"c">>
DpBC == <<"b", "/", "c">>
EnvName(i) == <<"e", ToString(i)>>
Namespaces == {NsA, NsAB}

\* GET /api/v1/namespaces: the items, one of them without a name.
apiNamespaces == <<[name |-> <<NsA>>], [name |-> <<>>], [name |-> <<NsAB>>]>>

\* The environment items of one namespace: distinct names, each with an
\* absent spec.dataPlaneRef or one naming a data plane.
RawEnvironmentLists ==
    {[i \in 1..Len(refs) |-> [name |-> <<EnvName(i)>>, dataPlaneRef |-> refs[i]]] :
        refs \in SeqsUpTo({<<>>, <<DpC>>}, MaxEnvs)}
\* The data plane items of one namespace.
RawDataPlaneLists ==
    {[i \in 1..Len(names) |-> [name |-> <<names[i]>>]] :
        names \in SeqsUpTo({DpC, DpBC}, MaxDPs)}

\* getName(x): metadata.name, <<>> when absent.
getName(item) == item.name
\* x || '' on an optional string
orEmptyString(x) == IF x = <<>> THEN <<>> ELSE x[1]

RECURSIVE flat(_)
flat(results) ==
    IF results = <<>> THEN <<>> ELSE Head(results) \o flat(Tail(results))

\* ok: the namespaces request succeeded.
fetchNamespaceNames(ok) ==
    IF ~ok
    THEN <<>>
    ELSE LET named == SelectSeq(apiNamespaces,
                         LAMBDA ns : getName(ns) # <<>> /\ getName(ns)[1] # <<>>)
         IN [i \in 1..Len(named) |-> getName(named[i])[1]]

transformEnvironmentData(environmentData, namespaceName) ==
    [i \in 1..Len(environmentData) |->
        [name |-> orEmptyString(getName(environmentData[i])),
         namespaceName |-> namespaceName,
         dataPlaneRef |-> orEmptyString(environmentData[i].dataPlaneRef)]]

transformDataPlaneData(dataplaneData, namespaceName) ==
    [i \in 1..Len(dataplaneData) |->
        [name |-> orEmptyString(getName(dataplaneData[i])),
         namespaceName |-> namespaceName]]

\* ok: the request for this namespace succeeded; a failure is logged and
\* answered with the empty list.
fetchEnvironmentsByNamespace(namespaceName, ok) ==
    IF ~ok THEN <<>>
    ELSE transformEnvironmentData(apiEnvironments[namespaceName], namespaceName)

fetchDataplanesByNamespace(namespaceName, ok) ==
    IF ~ok THEN <<>>
    ELSE transformDataPlaneData(apiDataplanes[namespaceName], namespaceName)

fetchAllEnvironments(nsOk, okSet) ==
    LET namespaces == fetchNamespaceNames(nsOk)
    IN flat([i \in 1..Len(namespaces) |->
                fetchEnvironmentsByNamespace(namespaces[i], namespaces[i] \in okSet)])

fetchAllDataplanes(nsOk, okSet) ==
    LET namespaces == fetchNamespaceNames(nsOk)
    IN flat([i \in 1..Len(namespaces) |->
                fetchDataplanesByNamespace(namespaces[i], namespaces[i] \in okSet)])

\* Variant: the key is the name alone, without the namespace.
compositeKeyNameOnly(namespaceName, name) == name

\* `${namespaceName}/${name}`
compositeKey(namespaceName, name) == namespaceName \o <<"/">> \o name

\* Variant: the group is replaced by the new environment, not extended.
groupEnvironmentOverwrite(map, env) ==
    LET key == compositeKey(env.namespaceName, env.dataPlaneRef)
    IN IF key \in DOMAIN map
       THEN [map EXCEPT ![key] = <<env>>]
       ELSE map @@ (key :> <<env>>)

\* The body of environments.forEach: has / set(key, []) / get(key).push(env).
groupEnvironment(map, env) ==
    LET key == compositeKey(env.namespaceName, env.dataPlaneRef)
        withKey == IF key \in DOMAIN map THEN map ELSE map @@ (key :> <<>>)
    IN [withKey EXCEPT ![key] = Append(@, env)]

RECURSIVE groupEnvironments(_, _)
groupEnvironments(envs, map) ==
    IF envs = <<>> THEN map
    ELSE groupEnvironments(Tail(envs), groupEnvironment(map, Head(envs)))

\* dataplanes.map(dataplane => ({...dataplane, environments: get(key) || []}))
joinEnvironments(dps, map) ==
    [i \in 1..Len(dps) |->
        LET key == compositeKey(dps[i].namespaceName, dps[i].name)
        IN [name |-> dps[i].name,
            namespaceName |-> dps[i].namespaceName,
            environments |-> IF key \in DOMAIN map THEN map[key] ELSE <<>>]]

InitGroup ==
    /\ StatusIdle
    /\ AggIdle
    /\ LookupIdle
    /\ ServicesIdle
    /\ apiEnvironments \in [Namespaces -> RawEnvironmentLists]
    /\ apiDataplanes \in [Namespaces -> RawDataPlaneLists]
    /\ settled = {}
    /\ dataplanes = <<>>
    /\ environments = <<>>
    /\ environmentsByDataPlane = <<>>
    /\ dataplanesWithEnvironments = <<>>
    /\ returned = FALSE

\* The two halves of Promise.all([fetchAllDataplanes, fetchAllEnvironments]).
FetchAllDataplanes ==
    /\ "dataplanes" \notin settled
    /\ \E nsOk \in BOOLEAN, okSet \in SUBSET Namespaces :
          dataplanes' = fetchAllDataplanes(nsOk, okSet)
    /\ settled' = settled \cup {"dataplanes"}
    /\ UNCHANGED <<statusVars, aggVars, lookupVars, serviceVars, apiEnvironments, apiDataplanes, environments,
                   environmentsByDataPlane, dataplanesWithEnvironments, returned>>

FetchAllEnvironments ==
    /\ "environments" \notin settled
    /\ \E nsOk \in BOOLEAN, okSet \in SUBSET Namespaces :
          environments' = fetchAllEnvironments(nsOk, okSet)
    /\ settled' = settled \cup {"environments"}
    /\ UNCHANGED <<statusVars, aggVars, lookupVars, serviceVars, apiEnvironments, apiDataplanes, dataplanes,
                   environmentsByDataPlane, dataplanesWithEnvironments, returned>>

\* The synchronous rest of fetchDataplanesWithEnvironments: group, join,
\* return.
GroupAndJoin ==
    /\ settled = {"dataplanes", "environments"}
    /\ ~returned
    /\ environmentsByDataPlane' = groupEnvironments(environments, <<>>)
    /\ dataplanesWithEnvironments' =
          joinEnvironments(dataplanes, environmentsByDataPlane')
    /\ returned' = TRUE
    /\ UNCHANGED <<statusVars, aggVars, lookupVars, serviceVars, apiEnvironments, apiDataplanes, settled,
                   dataplanes, environments>>

NextGroup == FetchAllDataplanes \/ FetchAllEnvironments \/ GroupAndJoin

SpecGroup == InitGroup /\ [][NextGroup]_vars

(***************************************************************************)
(* PlatformEnvironmentInfoService: the three batched aggregations over a   *)
(* component list (fetchComponentCountsPerEnvironment,                     *)
(* fetchDistinctDeployedComponentsCount, fetchHealthyWorkloadCount).       *)
(* Each request to the platform API is answered in a step of its own, in   *)
(* any order; the code between two awaits runs in one step.                *)
(***************************************************************************)
batchSize == 10

MaxVaried == 2          \* length of a list of freely chosen components
MaxComponents == 12     \* length of a long list (more than one batch)

Aggregations == {"counts", "distinct", "healthy"}

Component(ns, project, name) ==
    [namespaceName |-> ns, projectName |-> project, componentName |-> name]

\* A release binding: its optional spec.environment and its conditions.
Binding(env, ready) ==
    [environment |-> env, conditions |-> <<Cond("Ready", ready, undefined)>>]

\* One answer of GET .../releasebindings: the request throws (network
\* failure), or answers with an error response, or with a page of items.
Page(kind, items) == [kind |-> kind, items |-> items]

ThreeToOneEnvironment ==
    <<Page("ok", <<Binding(<<EnvName(1)>>, "True"), Binding(<<EnvName(1)>>, "True"),
                   Binding(<<EnvName(1)>>, "False")>>)>>
TwoPages ==
    <<Page("ok", <<Binding(<<EnvName(1)>>, "True")>>),
      Page("ok", <<Binding(<<EnvName(2)>>, "False")>>)>>
Throws == <<Page("throw", <<>>)>>
ErrorResponse == <<Page("error", <<>>)>>
SecondPageFails == <<Page("ok", <<Binding(<<EnvName(1)>>, "True")>>), Page("error", <<>>)>>
NoEnvironment == <<Page("ok", <<Binding(<<>>, "True")>>)>>
NoBindings == <<Page("ok", <<>>)>>
OneReady == <<Page("ok", <<Binding(<<EnvName(1)>>, "True")>>)>>

Scripts == {ThreeToOneEnvironment, TwoPages, Throws, ErrorResponse, SecondPageFails,
            NoEnvironment, NoBindings}

\* The k-th component of a long list, and the answer to its lookup.
Filler(k) == Component(NsA, <<"p">>, <<"c", ToString(k)>>)

VariedComponents ==
    {Component(NsA, <<"p">>, <<"x">>), Component(NsAB, <<"p">>, <<"x">>)}

\* The response to the request for one page of a component's bindings.
\* limit = 0: no limit; otherwise at most that many items.
GET(idx, page, limit) ==
    LET p == apiBindings[idx][page]
        items == IF limit > 0 /\ Len(p.items) > limit
                 THEN SubSeq(p.items, 1, limit) ELSE p.items
    IN [kind |-> p.kind, items |-> items,
        nextCursor |-> page < Len(apiBindings[idx])]

\* isReady(binding): its Ready condition has status 'True'.
isReady(binding) ==
    \E k \in 1..Len(binding.conditions) :
        /\ binding.conditions[k].type = "Ready"
        /\ binding.conditions[k].status = "True"

\* One turn of fetchAllPages(cursor => GET(...).then(res => ...)): the
\* response to the open request arrives.  The fetch is rejected, or asks
\* for the next page, or is resolved with the items of all pages.
fetchAllPages(open, res) ==
    IF res.kind # "ok"
    THEN [state |-> "rejected", page |-> open.page, items |-> <<>>]
    ELSE IF res.nextCursor
         THEN [state |-> "pending", page |-> open.page + 1,
               items |-> open.items \o res.items]
         ELSE [state |-> "resolved", page |-> open.page,
               items |-> open.items \o res.items]

\* Variant: a binding sets its environment's counter to one.
countBindingOnce(map, component, binding) ==
    IF binding.environment # <<>> /\ binding.environment[1] # <<>>
    THEN LET key == compositeKey(component.namespaceName, binding.environment[1])
         IN IF key \in DOMAIN map THEN map ELSE map @@ (key :> 1)
    ELSE map

\* The body of bindings.forEach in fetchComponentCountsPerEnvironment.
countBinding(map, component, binding) ==
    IF binding.environment # <<>> /\ binding.environment[1] # <<>>
    THEN LET key == compositeKey(component.namespaceName, binding.environment[1])
             currentCount == IF key \in DOMAIN map THEN map[key] ELSE 0
         IN IF key \in DOMAIN map
            THEN [map EXCEPT ![key] = currentCount + 1]
            ELSE map @@ (key :> currentCount + 1)
    ELSE map

\* Variant: each item counts its own bindings from the counters as they were
\* before its await (none) and stores those, overwriting what the other items
\* of the batch stored meanwhile.
countBindingsOverwriting(map, component, bindings) ==
    LET named == SelectSeq(bindings, LAMBDA b : b.environment # <<>> /\ b.environment[1] # <<>>)
        keyOf(b) == compositeKey(component.namespaceName, b.environment[1])
        own == {keyOf(named[k]) : k \in 1..Len(named)}
    IN [key \in DOMAIN map \cup own |->
           IF key \in own
           THEN Len(SelectSeq(named, LAMBDA b : keyOf(b) = key))
           ELSE map[key]]

RECURSIVE countBindings(_, _, _)
countBindings(map, component, bindings) ==
    IF bindings = <<>> THEN map
    ELSE countBindings(countBinding(map, component, Head(bindings)),
                       component, Tail(bindings))

\* `${namespaceName}/${projectName}/${componentName}`
componentKey(component) ==
    component.namespaceName \o <<"/">> \o component.projectName
        \o <<"/">> \o component.componentName

\* Variant: every binding counts, ready or not.
bindingCount(bindings) == Len(bindings)

\* bindings.filter(binding => isReady(binding)).length
healthyCount(bindings) == Len(SelectSeq(bindings, isReady))

\* Variant: components.slice(i), the whole rest of the list.
batchOfRest(n, start) == {idx \in 1..n : start < idx}

\* components.slice(i, i + batchSize), as indexes 1..n into the list
batchOf(n, start) == {idx \in 1..n : start < idx /\ idx <= start + batchSize}

\* Variant: the await never resumes.
promiseNever(batch, settledSet) == FALSE

\* Variant: resumes as soon as one promise of the batch has settled.
promiseAny(batch, settledSet) == batch \cap settledSet # {}

\* await Promise.all(batchPromises): every promise of the batch has
\* fulfilled (none rejects: each catches its own failure).
promiseAll(batch, settledSet) == batch \subseteq settledSet

RECURSIVE sumOver(_, _)
sumOver(f, S) ==
    IF S = {} THEN 0
    ELSE LET x == CHOOSE y \in S : TRUE IN f[x] + sumOver(f, S \ {x})

\* A function without one point of its domain.
without(f, x) ==
    IF DOMAIN f = {x} THEN <<>> ELSE [y \in DOMAIN f \ {x} |-> f[y]]

\* Variant: any answered lookup counts, with or without items.
addIfAnswered(deployed, component, res) ==
    IF res.kind = "ok"
    THEN deployed \cup {componentKey(component)}
    ELSE deployed

\* The rest of one item of fetchDistinctDeployedComponentsCount after its
\* await: if (!error && response.ok && data?.items && data.items.length > 0).
addIfDeployed(deployed, component, res) ==
    IF res.kind = "ok" /\ Len(res.items) > 0
    THEN deployed \cup {componentKey(component)}
    ELSE deployed

AggStart ==
    /\ batchStart = 0
    /\ pc = "loop"
    /\ inflight = <<>>
    /\ done = {}
    /\ batchCounts = <<>>
    /\ componentCountsByEnvironment = <<>>
    /\ deployedComponents = {}
    /\ healthyWorkloadCount = 0
    /\ warnings = <<>>
    /\ result = <<>>

\* Short lists of freely chosen components and answers.
InitAggregate ==
    /\ StatusIdle
    /\ GroupIdle
    /\ LookupIdle
    /\ ServicesIdle
    /\ fn \in Aggregations
    /\ \E cs \in SeqsUpTo(VariedComponents \X Scripts, MaxVaried) :
          /\ components = [k \in 1..Len(cs) |-> cs[k][1]]
          /\ apiBindings = [k \in 1..Len(cs) |-> cs[k][2]]
    /\ AggStart

\* Long lists: distinct components, each with one ready binding, except
\* that one lookup, of the first component of the first or of the second
\* batch, is answered in any of the ways above.
InitBatches ==
    /\ StatusIdle
    /\ GroupIdle
    /\ LookupIdle
    /\ ServicesIdle
    /\ fn \in Aggregations
    /\ \E n \in 0..MaxComponents, at \in {1, batchSize + 1},
          script \in Scripts \cup {OneReady} :
          /\ components = [k \in 1..n |-> Filler(k)]
          /\ apiBindings = [k \in 1..n |-> IF k = at THEN script ELSE OneReady]
    /\ AggStart

\* for (i...) { batch = components.slice(i, i + batchSize); batch.map(async
\* component => ...) }: every item of the batch runs up to its first await,
\* which issues its request.
DispatchBatch ==
    /\ pc = "loop"
    /\ batchStart < Len(components)
    /\ LET batch == batchOf(Len(components), batchStart)
       IN inflight' = [idx \in DOMAIN inflight \cup batch |->
                          IF idx \in batch THEN [page |-> 1, items |-> <<>>]
                          ELSE inflight[idx]]
    /\ batchCounts' = <<>>
    /\ pc' = "await"
    /\ UNCHANGED <<statusVars, groupVars, lookupVars, serviceVars, fn, components, apiBindings, batchStart,
                   done, componentCountsByEnvironment, deployedComponents,
                   healthyWorkloadCount, warnings, result>>

\* fetchComponentCountsPerEnvironment: the answer to one open request.
CountsResponse ==
    /\ fn = "counts"
    /\ \E idx \in DOMAIN inflight :
          LET next == fetchAllPages(inflight[idx], GET(idx, inflight[idx].page, 0))
          IN CASE next.state = "pending" ->
                    /\ inflight' = [inflight EXCEPT ![idx] =
                                       [page |-> next.page, items |-> next.items]]
                    /\ UNCHANGED <<done, componentCountsByEnvironment, warnings>>
               [] next.state = "resolved" ->
                    /\ inflight' = without(inflight, idx)
                    /\ done' = done \cup {idx}
                    /\ componentCountsByEnvironment' =
                          countBindings(componentCountsByEnvironment,
                                        components[idx], next.items)
                    /\ UNCHANGED warnings
               [] next.state = "rejected" ->
                    /\ inflight' = without(inflight, idx)
                    /\ done' = done \cup {idx}
                    /\ warnings' = Append(warnings, idx)
                    /\ UNCHANGED componentCountsByEnvironment
    /\ UNCHANGED <<statusVars, groupVars, lookupVars, serviceVars, fn, components, apiBindings, batchStart,
                   pc, batchCounts, deployedComponents, healthyWorkloadCount, result>>

\* fetchDistinctDeployedComponentsCount: the answer to one open request
\* (one request per component, limit 1).
DistinctResponse ==
    /\ fn = "distinct"
    /\ \E idx \in DOMAIN inflight :
          LET res == GET(idx, 1, 1)
          IN /\ inflight' = without(inflight, idx)
             /\ done' = done \cup {idx}
             /\ IF res.kind = "throw"
                THEN /\ warnings' = Append(warnings, idx)
                     /\ UNCHANGED deployedComponents
                ELSE /\ deployedComponents' =
                           addIfDeployed(deployedComponents, components[idx], res)
                     /\ UNCHANGED warnings
    /\ UNCHANGED <<statusVars, groupVars, lookupVars, serviceVars, fn, components, apiBindings, batchStart,
                   pc, batchCounts, componentCountsByEnvironment,
                   healthyWorkloadCount, result>>

\* fetchHealthyWorkloadCount: the answer to one open request.
HealthyResponse ==
    /\ fn = "healthy"
    /\ \E idx \in DOMAIN inflight :
          LET next == fetchAllPages(inflight[idx], GET(idx, inflight[idx].page, 0))
          IN CASE next.state = "pending" ->
                    /\ inflight' = [inflight EXCEPT ![idx] =
                                       [page |-> next.page, items |-> next.items]]
                    /\ UNCHANGED <<done, batchCounts, warnings>>
               [] next.state = "resolved" ->
                    /\ inflight' = without(inflight, idx)
                    /\ done' = done \cup {idx}
                    /\ batchCounts' = batchCounts @@ (idx :> healthyCount(next.items))
                    /\ UNCHANGED warnings
               [] next.state = "rejected" ->
                    /\ inflight' = without(inflight, idx)
                    /\ done' = done \cup {idx}
                    /\ batchCounts' = batchCounts @@ (idx :> 0)
                    /\ warnings' = Append(warnings, idx)
    /\ UNCHANGED <<statusVars, groupVars, lookupVars, serviceVars, fn, components, apiBindings, batchStart,
                   pc, componentCountsByEnvironment, deployedComponents,
                   healthyWorkloadCount, result>>

\* await Promise.all(batchPromises) resumes; the loop goes on to i += batchSize.
BatchSettled ==
    /\ pc = "await"
    /\ LET batch == batchOf(Len(components), batchStart)
       IN /\ promiseAll(batch, done)
          /\ healthyWorkloadCount' =
                IF fn = "healthy"
                THEN healthyWorkloadCount
                        + sumOver(batchCounts, batch \cap DOMAIN batchCounts)
                ELSE healthyWorkloadCount
    /\ batchStart' = batchStart + batchSize
    /\ pc' = "loop"
    /\ UNCHANGED <<statusVars, groupVars, lookupVars, serviceVars, fn, components, apiBindings, inflight,
                   done, batchCounts, componentCountsByEnvironment,
                   deployedComponents, warnings>>
    /\ UNCHANGED result

\* The loop ends and the aggregation returns its accumulator.
ReturnAggregate ==
    /\ pc = "loop"
    /\ batchStart >= Len(components)
    /\ result' = <<CASE fn = "counts" -> componentCountsByEnvironment
                     [] fn = "distinct" -> Cardinality(deployedComponents)
                     [] fn = "healthy" -> healthyWorkloadCount>>
    /\ pc' = "returned"
    /\ UNCHANGED <<statusVars, groupVars, lookupVars, serviceVars, fn, components, apiBindings, batchStart,
                   inflight, done, batchCounts, componentCountsByEnvironment,
                   deployedComponents, healthyWorkloadCount, warnings>>

NextAggregate ==
    \/ DispatchBatch
    \/ CountsResponse
    \/ DistinctResponse
    \/ HealthyResponse
    \/ BatchSettled
    \/ ReturnAggregate

SpecAggregate == InitAggregate /\ [][NextAggregate]_vars

SpecBatches == InitBatches /\ [][NextAggregate]_vars

\* Long lists whose first lookup fails, at once or on its second page.
InitFailing ==
    /\ StatusIdle
    /\ GroupIdle
    /\ LookupIdle
    /\ ServicesIdle
    /\ fn \in Aggregations
    /\ \E n \in 0..MaxComponents, script \in {Throws, SecondPageFails} :
          /\ components = [k \in 1..n |-> Filler(k)]
          /\ apiBindings = [k \in 1..n |-> IF k = 1 THEN script ELSE OneReady]
    /\ AggStart

\* The event loop runs every continuation that is ready, and every request
\* that was issued is answered (the premise of the termination claim).
FairBatches ==
    /\ InitFailing
    /\ [][NextAggregate]_vars
    /\ WF_vars(DispatchBatch)
    /\ WF_vars(CountsResponse)
    /\ WF_vars(DistinctResponse)
    /\ WF_vars(HealthyResponse)
    /\ WF_vars(BatchSettled)
    /\ WF_vars(ReturnAggregate)

(***************************************************************************)
(* The log and event lookups: BuildInfoService.fetchBuildLogs,             *)
(* WorkflowService.fetchWorkflowRunLogs and fetchWorkflowRunEvents, and    *)
(* GenericWorkflowService.getWorkflowRunLogs.  A lookup asks the platform  *)
(* API for the observer URL and the observer for the entries; its outcome  *)
(* is the value returned or the kind of error thrown.  An error message is *)
(* a sequence of words.                                                    *)
(***************************************************************************)
NotConfigured == "ObservabilityNotConfiguredError"
PlainError == "Error"

Returns(entries) == [kind |-> "returned", message |-> <<>>, logs |-> entries]
Thrown(kind, message) == [kind |-> kind, message |-> message, logs |-> <<>>]

\* The answer to one request: the request throws (thrown = <<message>>) or
\* is answered with a status and a body.
Answer(thrown, status, body) == [thrown |-> thrown, status |-> status, body |-> body]

\* The body of an observer-url answer: the `success` flag of the legacy
\* envelope and the payload (absent, or with an observerUrl field).
UrlBody(success, data) == [success |-> success, data |-> data]

Refused == <<"connect", "ECONNREFUSED", "127.0.0.1:9097">>
FetchFailed == <<"fetch", "failed">>
HangUp == <<"socket", "hang", "up">>

UrlAnswers ==
    {Answer(<<Refused>>, 0, UrlBody(FALSE, <<>>)),
     Answer(<<>>, 404, UrlBody(FALSE, <<>>)),
     Answer(<<>>, 500, UrlBody(FALSE, <<>>)),
     Answer(<<>>, 200, UrlBody(FALSE, <<>>)),
     Answer(<<>>, 200, UrlBody(TRUE, <<>>)),
     Answer(<<>>, 200, UrlBody(TRUE, <<[observerUrl |-> undefined]>>)),
     Answer(<<>>, 200, UrlBody(TRUE, <<[observerUrl |-> ""]>>)),
     Answer(<<>>, 200, UrlBody(TRUE, <<[observerUrl |-> "http://observer"]>>))}

\* The body of a log answer: the entries, when it carries any.
LogAnswers ==
    {Answer(<<Refused>>, 0, <<>>),
     Answer(<<FetchFailed>>, 0, <<>>),
     Answer(<<HangUp>>, 0, <<>>),
     Answer(<<>>, 404, <<>>),
     Answer(<<>>, 500, <<>>),
     Answer(<<>>, 200, <<>>),
     Answer(<<>>, 200, <<<<"line">>>>)}

LookupInputs ==
    [runName : {"", "run-1"},
     hasLiveObservability : BOOLEAN,
     run : {"found", "missing"},
     url : UrlAnswers,
     log : LogAnswers]

\* response.status as a word of a message
StatusWord(status) == ToString(status)

\* message.includes(phrase)
includes(message, phrase) ==
    \E k \in 0..(Len(message) - Len(phrase)) :
        SubSeq(message, k + 1, k + Len(phrase)) = phrase

\* Variant: the error is wrapped in a plain Error.
rethrowWrapped(error) == Thrown(PlainError, error.message)

\* The outer catch of every lookup: log, then `throw error`.
rethrow(error) == error

\* The observer-url step of fetchBuildLogs, fetchWorkflowRunLogs and
\* fetchWorkflowRunEvents: the error it throws, or <<>> with a usable URL.
observerUrlLegacy(url) ==
    IF url.thrown # <<>> THEN <<Thrown(PlainError, url.thrown[1])>>
    ELSE IF url.status # 200
    THEN <<Thrown(PlainError, <<"Failed", "to", "get", "observer", "URL:",
                                 StatusWord(url.status)>>)>>
    ELSE IF ~url.body.success \/ url.body.data = <<>>
    THEN <<Thrown(PlainError, <<"API", "returned", "unsuccessful", "response">>)>>
    ELSE IF ~truthy(url.body.data[1].observerUrl)
    THEN <<Thrown(NotConfigured, <<>>)>>
    ELSE <<>>

\* The observer-url step of getWorkflowRunLogs.
observerUrlOfEnvironment(url) ==
    IF url.thrown # <<>> THEN <<Thrown(PlainError, url.thrown[1])>>
    ELSE IF url.status # 200
    THEN IF url.status = 404
         THEN <<Thrown(NotConfigured, <<>>)>>
         ELSE <<Thrown(PlainError, <<"Failed", "to", "get", "observer", "URL:",
                                      StatusWord(url.status)>>)>>
    ELSE IF url.body.data = <<>> \/ ~truthy(url.body.data[1].observerUrl)
    THEN <<Thrown(NotConfigured, <<>>)>>
    ELSE <<>>

\* Variant: every error status of the observer's answer is "not configured".
observerEntriesAnyStatus(log, what) ==
    IF log.thrown # <<>> THEN Thrown(PlainError, log.thrown[1])
    ELSE IF log.status # 200
    THEN Thrown(NotConfigured, <<>>)
    ELSE Returns(IF log.body = <<>> THEN <<>> ELSE log.body[1])

\* The observer request of fetchWorkflowRunLogs / fetchWorkflowRunEvents
\* and what follows it inside the try block.
observerEntries(log, what) ==
    IF log.thrown # <<>> THEN Thrown(PlainError, log.thrown[1])
    ELSE IF log.status # 200
    THEN IF log.status = 404
         THEN Thrown(NotConfigured, <<>>)
         ELSE Thrown(PlainError, <<"Failed", "to", "fetch", "workflow", "run",
                                   what, StatusWord(log.status)>>)
    ELSE Returns(IF log.body = <<>> THEN <<>> ELSE log.body[1])

\* The openchoreo-api request of the same two lookups (hasLiveObservability).
liveEntries(log, what) ==
    IF log.thrown # <<>> THEN Thrown(PlainError, log.thrown[1])
    ELSE IF log.status # 200
    THEN Thrown(PlainError, <<"Failed", "to", "fetch", "workflow", "run",
                              what, StatusWord(log.status)>>)
    ELSE IF log.body = <<>>
    THEN Thrown(PlainError, <<"Failed", "to", "fetch", "workflow", "run",
                              what, "invalid", "payload">>)
    ELSE Returns(log.body[1])

\* The observer request of fetchBuildLogs and what follows it.
buildLogs(log) ==
    IF log.thrown # <<>> THEN Thrown(PlainError, log.thrown[1])
    ELSE IF log.status # 200
    THEN Thrown(PlainError, <<"Failed", "to", "fetch", "build", "logs:",
                              StatusWord(log.status)>>)
    ELSE Returns(IF log.body = <<>> THEN <<>> ELSE log.body[1])

\* The inner catch of getWorkflowRunLogs around its observer request.
innerCatch(obsError) ==
    IF obsError.kind = NotConfigured THEN obsError
    ELSE IF \/ includes(obsError.message, <<"ECONNREFUSED">>)
            \/ includes(obsError.message, <<"fetch", "failed">>)
    THEN Thrown(NotConfigured, <<>>)
    ELSE obsError

\* The observer request of getWorkflowRunLogs, inside its inner try.
workflowRunLogs(log) ==
    IF log.thrown # <<>> THEN innerCatch(Thrown(PlainError, log.thrown[1]))
    ELSE IF log.status # 200
    THEN IF log.status = 404
         THEN innerCatch(Thrown(NotConfigured, <<>>))
         ELSE innerCatch(Thrown(PlainError, <<"Failed", "to", "fetch", "workflow",
                                              "run", "logs:", StatusWord(log.status)>>))
    ELSE Returns(IF log.body = <<>> THEN <<>> ELSE log.body[1])

\* A step's error goes through the outer catch; a value is returned.
viaCatch(r) == IF r.kind = "returned" THEN r ELSE rethrow(r)

fetchBuildLogs(input) ==
    LET failed == observerUrlLegacy(input.url)
    IN IF failed # <<>> THEN rethrow(failed[1]) ELSE viaCatch(buildLogs(input.log))

fetchWorkflowRunLogs(input) ==
    IF input.hasLiveObservability
    THEN viaCatch(liveEntries(input.log, "logs:"))
    ELSE LET failed == observerUrlLegacy(input.url)
         IN IF failed # <<>> THEN rethrow(failed[1])
            ELSE viaCatch(observerEntries(input.log, "logs:"))

fetchWorkflowRunEvents(input) ==
    IF ~truthy(input.runName)
    THEN Thrown(PlainError, <<"runName", "is", "required">>)
    ELSE IF input.hasLiveObservability
    THEN viaCatch(liveEntries(input.log, "events:"))
    ELSE LET failed == observerUrlLegacy(input.url)
         IN IF failed # <<>> THEN rethrow(failed[1])
            ELSE viaCatch(observerEntries(input.log, "events:"))

getWorkflowRunLogs(input) ==
    IF input.run = "missing"
    THEN rethrow(Thrown(PlainError, <<"Failed", "to", "fetch", "workflow", "run:",
                                      StatusWord(404)>>))
    ELSE LET failed == observerUrlOfEnvironment(input.url)
         IN IF failed # <<>> THEN rethrow(failed[1])
            ELSE viaCatch(workflowRunLogs(input.log))

InitLookup ==
    /\ StatusIdle
    /\ GroupIdle
    /\ AggIdle
    /\ ServicesIdle
    /\ lookupInput \in LookupInputs
    /\ lookupCaller = "none"
    /\ outcome = <<>>

FetchBuildLogs ==
    /\ lookupCaller = "none"
    /\ lookupCaller' = "fetchBuildLogs"
    /\ outcome' = fetchBuildLogs(lookupInput)
    /\ UNCHANGED <<statusVars, groupVars, aggVars, serviceVars, lookupInput>>

FetchWorkflowRunLogs ==
    /\ lookupCaller = "none"
    /\ lookupCaller' = "fetchWorkflowRunLogs"
    /\ outcome' = fetchWorkflowRunLogs(lookupInput)
    /\ UNCHANGED <<statusVars, groupVars, aggVars, serviceVars, lookupInput>>

FetchWorkflowRunEvents ==
    /\ lookupCaller = "none"
    /\ lookupCaller' = "fetchWorkflowRunEvents"
    /\ outcome' = fetchWorkflowRunEvents(lookupInput)
    /\ UNCHANGED <<statusVars, groupVars, aggVars, serviceVars, lookupInput>>

GetWorkflowRunLogs ==
    /\ lookupCaller = "none"
    /\ lookupCaller' = "getWorkflowRunLogs"
    /\ outcome' = getWorkflowRunLogs(lookupInput)
    /\ UNCHANGED <<statusVars, groupVars, aggVars, serviceVars, lookupInput>>

NextLookup ==
    \/ FetchBuildLogs
    \/ FetchWorkflowRunLogs
    \/ FetchWorkflowRunEvents
    \/ GetWorkflowRunLogs

SpecLookup == InitLookup /\ [][NextLookup]_vars

(***************************************************************************)
(* Two aggregation calls on one service instance.  The service object      *)
(* holds only its logger and base URL; each call of an aggregation         *)
(* declares its accumulator as a local (new Map(), new Set(), let ... = 0) *)
(* and runs, like every async function, in segments that end at an await:  *)
(* from the call to the first await Promise.all, each answer to an open    *)
(* request, and from the resumption of the await to the next one or to     *)
(* the return.  The segments of the two calls interleave freely.           *)
(***************************************************************************)
Calls == {1, 2}

\* The answers given to the requests of concurrent calls.
ConcurrentScripts == {ThreeToOneEnvironment, TwoPages, Throws}

earlierVars == <<statusVars, groupVars, aggVars, lookupVars>>

\* Variant: the accumulator is a field of the service object.
accumulatorOfService(c) == "service"

\* The accumulator that the names componentCountsByEnvironment,
\* deployedComponents and healthyWorkloadCount denote in call c: the local
\* of that invocation.
accumulatorOf(c) == c

NewAccumulator ==
    [componentCountsByEnvironment |-> <<>>, deployedComponents |-> {},
     healthyWorkloadCount |-> 0]

\* The current batch of the call, as indexes into the list.  The call's
\* components argument is the list, for the second call possibly without
\* its first entry.
batchOfCall(call) ==
    {k + call.skip : k \in batchOf(Len(components) - call.skip, call.batchStart)}

\* for (let i = start; i < components.length; ...): the next batch is
\* dispatched and awaited, or the loop ends and the accumulator is returned.
loopFrom(call, start, acc) ==
    LET at == [call EXCEPT !.batchStart = start]
    IN IF start < Len(components) - call.skip
       THEN [at EXCEPT !.pc = "await", !.batchCounts = <<>>,
                       !.inflight = [g \in batchOfCall(at) |->
                                        [page |-> 1, items |-> <<>>]]]
       ELSE [at EXCEPT !.pc = "returned",
                       !.result = <<CASE call.fn = "counts" ->
                                           acc.componentCountsByEnvironment
                                      [] call.fn = "distinct" ->
                                           Cardinality(acc.deployedComponents)
                                      [] call.fn = "healthy" ->
                                           acc.healthyWorkloadCount>>]

InitCalls ==
    /\ StatusIdle
    /\ GroupIdle
    /\ LookupIdle
    /\ \E cs \in SeqsUpTo(VariedComponents \X ConcurrentScripts, MaxVaried) :
          /\ cs # <<>> => cs[1][1].namespaceName = NsA
          /\ components = [k \in 1..Len(cs) |-> cs[k][1]]
          /\ apiBindings = [k \in 1..Len(cs) |-> cs[k][2]]
    /\ fn = "idle"
    /\ pc = "idle"
    /\ batchStart = 0
    /\ inflight = <<>>
    /\ done = {}
    /\ batchCounts = <<>>
    /\ componentCountsByEnvironment = <<>>
    /\ deployedComponents = {}
    /\ healthyWorkloadCount = 0
    /\ warnings = <<>>
    /\ result = <<>>
    /\ calls \in [Calls -> [fn : Aggregations, skip : {0, 1} \cap 0..Len(components),
                            pc : {"idle"}, batchStart : {0}, inflight : {<<>>},
                            done : {{}}, batchCounts : {<<>>}, result : {<<>>}]]
    /\ calls[1].skip = 0
    /\ accumulators = <<>>
    /\ AuthzIdle
    /\ RunsIdle
    /\ UpdatesIdle
    /\ ActionIdle

\* The aggregation is called: it creates its accumulator and runs up to its
\* first await.
CallAggregation(c) ==
    /\ calls[c].pc = "idle"
    /\ LET own == accumulatorOf(c)
       IN /\ accumulators' = (own :> NewAccumulator) @@ accumulators
          /\ calls' = [calls EXCEPT ![c] = loopFrom(@, 0, NewAccumulator)]
    /\ UNCHANGED <<earlierVars, authzVars, runVars, updateVars, actionVars>>

\* The answer to one open request of the call arrives, and the item of the
\* batch that awaited it runs to its end.
CallResponse(c) ==
    /\ \E g \in DOMAIN calls[c].inflight :
          LET call == calls[c]
              own == accumulatorOf(c)
              next == fetchAllPages(call.inflight[g], GET(g, call.inflight[g].page, 0))
              res == GET(g, 1, 1)
              settledItem == [call EXCEPT !.inflight = without(@, g),
                                          !.done = @ \cup {g}]
          IN CASE call.fn = "distinct" ->
                    /\ calls' = [calls EXCEPT ![c] = settledItem]
                    /\ accumulators' =
                          [accumulators EXCEPT ![own].deployedComponents =
                              IF res.kind = "throw" THEN @
                              ELSE addIfDeployed(@, components[g], res)]
               [] call.fn # "distinct" /\ next.state = "pending" ->
                    /\ calls' = [calls EXCEPT ![c].inflight[g] =
                                    [page |-> next.page, items |-> next.items]]
                    /\ UNCHANGED accumulators
               [] call.fn = "counts" /\ next.state = "resolved" ->
                    /\ calls' = [calls EXCEPT ![c] = settledItem]
                    /\ accumulators' =
                          [accumulators EXCEPT ![own].componentCountsByEnvironment =
                              countBindings(@, components[g], next.items)]
               [] call.fn = "healthy" /\ next.state = "resolved" ->
                    /\ calls' = [calls EXCEPT ![c] =
                                    [settledItem EXCEPT !.batchCounts =
                                        @ @@ (g :> healthyCount(next.items))]]
                    /\ UNCHANGED accumulators
               [] call.fn = "counts" /\ next.state = "rejected" ->
                    /\ calls' = [calls EXCEPT ![c] = settledItem]
                    /\ UNCHANGED accumulators
               [] call.fn = "healthy" /\ next.state = "rejected" ->
                    /\ calls' = [calls EXCEPT ![c] =
                                    [settledItem EXCEPT !.batchCounts = @ @@ (g :> 0)]]
                    /\ UNCHANGED accumulators
    /\ UNCHANGED <<earlierVars, authzVars, runVars, updateVars, actionVars>>

\* await Promise.all(batchPromises) resumes in the call, which goes on to
\* its next await or to its return.
CallSettled(c) ==
    /\ calls[c].pc = "await"
    /\ LET call == calls[c]
           own == accumulatorOf(c)
           batch == batchOfCall(call)
           acc == IF call.fn = "healthy"
                  THEN [accumulators[own] EXCEPT !.healthyWorkloadCount =
                           @ + sumOver(call.batchCounts, batch \cap DOMAIN call.batchCounts)]
                  ELSE accumulators[own]
       IN /\ promiseAll(batch, call.done)
          /\ accumulators' = [accumulators EXCEPT ![own] = acc]
          /\ calls' = [calls EXCEPT ![c] = loopFrom(call, call.batchStart + batchSize, acc)]
    /\ UNCHANGED <<earlierVars, authzVars, runVars, updateVars, actionVars>>

NextCalls == \E c \in Calls : CallAggregation(c) \/ CallResponse(c) \/ CallSettled(c)

SpecCalls == InitCalls /\ [][NextCalls]_vars

(***************************************************************************)
(* AuthzService: force-deletion of a role with its bindings.  The platform *)
(* API holds cluster role bindings and, per namespace, role bindings whose *)
(* roleRef names a namespace role (kind AuthzRole) or a cluster role.      *)
(* Names are sequences of characters, since binding ids are built by       *)
(* concatenation; an absent value is <<>>, a present one <<v>>.            *)
(***************************************************************************)
MaxBindings == 3        \* bindings the platform holds

AuthzNamespaces == << <<"m">>, <<"n">> >>

\* A role binding resource as the API returns it.  scope: <<>> for a
\* cluster role binding, <<namespace>> for a namespace role binding.
RawBinding(scope, name, kind, role) ==
    [scope |-> scope, name |-> name, roleRef |-> [kind |-> kind, name |-> role]]

BindingUniverse ==
    << RawBinding(<<>>, <<"c", "1">>, "AuthzClusterRole", <<"r">>),
       RawBinding(<<>>, <<"c", "2">>, "AuthzClusterRole", <<"s">>),
       RawBinding(<< <<"m">> >>, <<"b", "1">>, "AuthzClusterRole", <<"r">>),
       RawBinding(<< <<"m">> >>, <<"b", "2">>, "AuthzRole", <<"r">>),
       RawBinding(<< <<"m">> >>, <<"b", "3">>, "AuthzRole", <<"s">>),
       RawBinding(<< <<"n">> >>, <<"b", "1">>, "AuthzRole", <<"r">>),
       RawBinding(<< <<"n">> >>, <<"b", "4">>, "AuthzClusterRole", <<"r">>) >>

\* The items of a list request: the stored bindings of the scope, in order.
itemsOf(scope) ==
    SelectSeq(BindingUniverse, LAMBDA b : b \in authzApi.bindings /\ b.scope = scope)

\* allBindings' map callback: role.namespace is the namespace for a roleRef
\* of kind AuthzRole and undefined otherwise (a cluster role binding has no
\* role.namespace: it is mapped with no namespace).
toBinding(b, namespace) ==
    [name |-> b.name,
     role |-> [name |-> b.roleRef.name,
               namespace |-> IF b.roleRef.kind = "AuthzRole"
                             THEN namespace ELSE <<>>],
     namespace |-> <<>>]

\* allBindings.filter callback, for the filters roleName and roleNamespace
\* (a falsy filter is not applied).
passes(b, filters) ==
    /\ filters.roleName # <<>> => b.role.name = filters.roleName
    /\ (filters.roleNamespace # <<>> /\ filters.roleNamespace[1] # <<>>)
          => b.role.namespace = filters.roleNamespace

listClusterRoleBindings(filters) ==
    LET items == itemsOf(<<>>)
        allBindings == [k \in 1..Len(items) |-> toBinding(items[k], <<>>)]
    IN SelectSeq(allBindings, LAMBDA b : passes(b, filters))

listNamespaceRoleBindings(namespace, filters) ==
    LET items == itemsOf(<<namespace>>)
        allBindings == [k \in 1..Len(items) |-> toBinding(items[k], <<namespace>>)]
    IN SelectSeq(allBindings, LAMBDA b : passes(b, filters))

\* Variant: the bindings of every namespace role of that name are kept too.
referencesAnyRole(b) == TRUE

\* .filter(b => !b.role?.namespace)
referencesClusterRole(b) == b.role.namespace = <<>> \/ b.role.namespace[1] = <<>>

withNamespace(bs, namespace) ==
    [k \in 1..Len(bs) |-> [bs[k] EXCEPT !.namespace = <<namespace>>]]

listBindingsForRole(roleName, roleScope, roleNamespace) ==
    IF roleScope = "cluster"
    THEN LET ofNamespace(ns) ==
                 withNamespace(
                     SelectSeq(listNamespaceRoleBindings(
                                   ns, [roleName |-> roleName, roleNamespace |-> <<>>]),
                               referencesClusterRole), ns)
         IN [clusterRoleBindings |->
                 listClusterRoleBindings([roleName |-> roleName, roleNamespace |-> <<>>]),
             namespaceRoleBindings |->
                 ofNamespace(AuthzNamespaces[1]) \o ofNamespace(AuthzNamespaces[2])]
    ELSE [clusterRoleBindings |-> <<>>,
          namespaceRoleBindings |->
              withNamespace(listNamespaceRoleBindings(
                                roleNamespace[1],
                                [roleName |-> roleName, roleNamespace |-> roleNamespace]),
                            roleNamespace[1])]

\* The DELETE request for a listed binding, and the stored binding it names.
deleteRequest(b) ==
    [kind |-> IF b.namespace = <<>> THEN "clusterrolebinding" ELSE "rolebinding",
     scope |-> b.namespace, name |-> b.name]

\* `${namespace}/${name}` for a namespace role binding, the name for a
\* cluster role binding.
bindingId(b) ==
    IF b.namespace = <<>> THEN b.name ELSE compositeKey(b.namespace[1], b.name)

\* The bindings whose deletions the call awaits at present.
awaited(call) ==
    IF call.pc = "awaitCluster" THEN call.clusterRoleBindings
    ELSE call.namespaceRoleBindings

\* Promise.allSettled(bindings.map(b => this.delete...Binding(...))): every
\* request is sent, then the call waits.
dispatched(call, round) ==
    LET at == [call EXCEPT !.pc = round]
    IN [at EXCEPT !.open = 1..Len(awaited(at)), !.order = <<>>, !.status = <<>>]

\* Variant: the k-th result is the k-th that arrived.
resultInCompletionOrder(call, k) == call.status[call.order[k]]

\* results.forEach((result, i) => ...): result i belongs to binding i.
resultAt(call, k) == call.status[k]

\* Variant: the role is deleted whatever became of its bindings.
cannotDeleteRoleNever(failedBindings) == FALSE

\* if (failedBindings.length > 0) return {..., roleDeleted: false}
cannotDeleteRole(failedBindings) == Len(failedBindings) > 0

NotCalled ==
    [scope |-> "none", namespace |-> <<>>, name |-> <<>>, pc |-> "idle",
     clusterRoleBindings |-> <<>>, namespaceRoleBindings |-> <<>>,
     open |-> {}, order |-> <<>>, status |-> <<>>,
     deletedBindings |-> <<>>, failedBindings |-> <<>>, roleDeleted |-> FALSE]

InitForceDelete ==
    /\ StatusIdle
    /\ GroupIdle
    /\ AggIdle
    /\ LookupIdle
    /\ CallsIdle
    /\ RunsIdle
    /\ UpdatesIdle
    /\ ActionIdle
    /\ \E bindings \in SUBSET {BindingUniverse[k] : k \in 1..Len(BindingUniverse)} :
          /\ Cardinality(bindings) <= MaxBindings
          /\ authzApi \in [held : {bindings}, bindings : {bindings},
                            failing : SUBSET bindings,
                            roleFails : BOOLEAN, listFails : BOOLEAN]
    /\ \E scope \in {<<>>} \cup {<<AuthzNamespaces[k]>> : k \in 1..Len(AuthzNamespaces)} :
          forceDelete = [NotCalled EXCEPT !.pc = "called", !.namespace = scope,
                                          !.name = <<"r">>,
                                          !.scope = IF scope = <<>> THEN "cluster"
                                                    ELSE "namespace"]
    /\ deleteRequests = <<>>

\* forceDeleteClusterRole(name) up to its await of the cluster role
\* bindings' deletions; a failed list request makes it throw.
ForceDeleteClusterRole ==
    /\ forceDelete.pc = "called"
    /\ forceDelete.scope = "cluster"
    /\ IF authzApi.listFails
       THEN /\ forceDelete' = [forceDelete EXCEPT !.pc = "thrown"]
            /\ UNCHANGED deleteRequests
       ELSE LET listed == listBindingsForRole(forceDelete.name, "cluster", <<>>)
                call == [forceDelete EXCEPT
                            !.clusterRoleBindings = listed.clusterRoleBindings,
                            !.namespaceRoleBindings = listed.namespaceRoleBindings]
            IN /\ forceDelete' = dispatched(call, "awaitCluster")
               /\ deleteRequests' =
                     deleteRequests \o [k \in 1..Len(call.clusterRoleBindings) |->
                                           deleteRequest(call.clusterRoleBindings[k])]
    /\ UNCHANGED <<earlierVars, callVars, runVars, updateVars, actionVars, authzApi>>

\* forceDeleteNamespaceRole(namespace, name) up to its await of the
\* bindings' deletions.
ForceDeleteNamespaceRole ==
    /\ forceDelete.pc = "called"
    /\ forceDelete.scope = "namespace"
    /\ IF authzApi.listFails
       THEN /\ forceDelete' = [forceDelete EXCEPT !.pc = "thrown"]
            /\ UNCHANGED deleteRequests
       ELSE LET listed == listBindingsForRole(forceDelete.name, "namespace",
                                              forceDelete.namespace)
                call == [forceDelete EXCEPT
                            !.namespaceRoleBindings = listed.namespaceRoleBindings]
            IN /\ forceDelete' = dispatched(call, "awaitNamespace")
               /\ deleteRequests' =
                     deleteRequests \o [k \in 1..Len(call.namespaceRoleBindings) |->
                                           deleteRequest(call.namespaceRoleBindings[k])]
    /\ UNCHANGED <<earlierVars, callVars, runVars, updateVars, actionVars, authzApi>>

\* The platform answers one of the open binding deletions: the binding is
\* deleted and the promise fulfilled, or the request fails and it rejects.
DeleteBindingResponse ==
    /\ forceDelete.pc \in {"awaitCluster", "awaitNamespace"}
    /\ \E k \in forceDelete.open :
          LET b == awaited(forceDelete)[k]
              stored == {s \in authzApi.bindings : s.scope = b.namespace /\ s.name = b.name}
              ok == stored \cap authzApi.failing = {}
          IN /\ forceDelete' = [forceDelete EXCEPT
                                   !.open = @ \ {k},
                                   !.order = Append(@, k),
                                   !.status = @ @@ (k :> IF ok THEN "fulfilled"
                                                         ELSE "rejected")]
             /\ authzApi' = [authzApi EXCEPT !.bindings = IF ok THEN @ \ stored ELSE @]
    /\ UNCHANGED <<earlierVars, callVars, runVars, updateVars, actionVars, deleteRequests>>

\* await Promise.allSettled(...) resumes: the results are sorted into
\* deletedBindings and failedBindings; then the namespace bindings'
\* deletions are sent, or the role's deletion, or the call returns.
BindingsSettled ==
    /\ forceDelete.pc \in {"awaitCluster", "awaitNamespace"}
    /\ forceDelete.open = {}
    /\ LET bs == awaited(forceDelete)
           ids(st) == LET ks == SelectSeq([k \in 1..Len(bs) |-> k],
                                          LAMBDA k : resultAt(forceDelete, k) = st)
                      IN [j \in 1..Len(ks) |-> bindingId(bs[ks[j]])]
           call == [forceDelete EXCEPT
                       !.deletedBindings = @ \o ids("fulfilled"),
                       !.failedBindings = @ \o ids("rejected")]
       IN IF forceDelete.pc = "awaitCluster"
          THEN /\ forceDelete' = dispatched(call, "awaitNamespace")
               /\ deleteRequests' =
                     deleteRequests \o [k \in 1..Len(call.namespaceRoleBindings) |->
                                           deleteRequest(call.namespaceRoleBindings[k])]
          ELSE IF cannotDeleteRole(call.failedBindings)
               THEN /\ forceDelete' = [call EXCEPT !.pc = "returned"]
                    /\ UNCHANGED deleteRequests
               ELSE /\ forceDelete' = [call EXCEPT !.pc = "awaitRole"]
                    /\ deleteRequests' =
                          Append(deleteRequests,
                                 [kind |-> IF call.scope = "cluster"
                                           THEN "clusterrole" ELSE "role",
                                  scope |-> call.namespace, name |-> call.name])
    /\ UNCHANGED <<earlierVars, callVars, runVars, updateVars, actionVars, authzApi>>

\* The answer to the role's deletion: the call returns roleDeleted: true,
\* or throws what the deletion threw.
RoleDeleteResponse ==
    /\ forceDelete.pc = "awaitRole"
    /\ forceDelete' = IF authzApi.roleFails
                      THEN [forceDelete EXCEPT !.pc = "thrown"]
                      ELSE [forceDelete EXCEPT !.pc = "returned", !.roleDeleted = TRUE]
    /\ UNCHANGED <<earlierVars, callVars, runVars, updateVars, actionVars, authzApi, deleteRequests>>

NextForceDelete ==
    \/ ForceDeleteClusterRole
    \/ ForceDeleteNamespaceRole
    \/ DeleteBindingResponse
    \/ BindingsSettled
    \/ RoleDeleteResponse

SpecForceDelete == InitForceDelete /\ [][NextForceDelete]_vars

(***************************************************************************)
(* Workflow runs of a component: list, get and trigger, in the backend     *)
(* plugin (BuildInfoService) and the CI plugin (WorkflowService).  A run   *)
(* carries the labels openchoreo.dev/component and openchoreo.dev/project, *)
(* each absent (<<>>) or present (<<value>>).                              *)
(***************************************************************************)
MaxTriggers == 1        \* builds triggered in one behaviour

Services == {"backend", "ci"}
ComponentNames == {<<"c">>, <<"d">>}
ProjectNames == {<<"p">>, <<"q">>}

WorkflowRun(name, component, project) ==
    [name |-> name, labels |-> [component |-> component, project |-> project]]

\* The runs a namespace may hold before any build is triggered.
StoredRuns ==
    {WorkflowRun(<<"r", "1">>, << <<"c">> >>, << <<"p">> >>),
     WorkflowRun(<<"r", "2">>, << <<"c">> >>, << <<"q">> >>),
     WorkflowRun(<<"r", "3">>, << <<"c">> >>, <<>>),
     WorkflowRun(<<"r", "4">>, << <<"d">> >>, << <<"p">> >>),
     WorkflowRun(<<"r", "5">>, <<>>, << <<"p">> >>)}

\* transformComponentWorkflowRun / transformWorkflowRun, as far as the
\* run's identity goes: labels[...] ?? ''.
transformWorkflowRun(r) ==
    [name |-> r.name,
     componentName |-> orEmptyString(r.labels.component),
     projectName |-> orEmptyString(r.labels.project)]

\* fetchBuilds' filter callback:
\* run.metadata?.labels?.['openchoreo.dev/component'] === componentName
listed(r, projectName, componentName) == r.labels.component = <<componentName>>

\* fetchBuilds(namespaceName, projectName, componentName), the same in both
\* services: all pages of the namespace's runs, filtered and transformed.
fetchBuilds(ok, projectName, componentName) ==
    IF ~ok THEN Thrown(PlainError, <<"Failed", "to", "fetch", "component", "workflow", "runs">>)
    ELSE [kind |-> "returned",
          value |-> {transformWorkflowRun(r) :
                        r \in {s \in runsApi.runs : listed(s, projectName, componentName)}}]

\* Variant: the run's component label alone decides.
belongsToComponent(r, projectName, componentName) ==
    r.labels.component = <<componentName>>

\* The negation of getWorkflowRun's test of runLabels:
\* runLabels[component] !== componentName || runLabels[project] !== projectName
belongs(r, projectName, componentName) ==
    ~(r.labels.component # <<componentName>> \/ r.labels.project # <<projectName>>)

\* getWorkflowRun(namespaceName, projectName, componentName, runName) of
\* either service.  data: the run of that name, if the namespace holds one.
getWorkflowRun(ok, projectName, componentName, runName) ==
    LET data == {r \in runsApi.runs : r.name = runName}
    IN IF ~ok \/ data = {}
       THEN Thrown(PlainError, <<"Failed", "to", "fetch", "workflow", "run">>)
       ELSE LET r == CHOOSE s \in data : TRUE
            IN IF belongs(r, projectName, componentName)
               THEN [kind |-> "returned", value |-> transformWorkflowRun(r)]
               ELSE Thrown(PlainError, <<"does", "not", "belong", "to", "component">>)

InitRuns ==
    /\ StatusIdle
    /\ GroupIdle
    /\ AggIdle
    /\ LookupIdle
    /\ CallsIdle
    /\ AuthzIdle
    /\ UpdatesIdle
    /\ ActionIdle
    /\ runsApi \in [runs : SUBSET StoredRuns, clock : {0}]
    /\ runCall = [op |-> "none"]

FetchBuilds ==
    /\ \E service \in Services, ok \in BOOLEAN,
          projectName \in ProjectNames, componentName \in ComponentNames :
          runCall' = [op |-> "fetchBuilds", service |-> service,
                      projectName |-> projectName, componentName |-> componentName,
                      runName |-> <<>>, ok |-> ok,
                      outcome |-> fetchBuilds(ok, projectName, componentName)]
    /\ UNCHANGED <<earlierVars, callVars, authzVars, updateVars, actionVars, runsApi>>

GetWorkflowRun ==
    /\ \E service \in Services, ok \in BOOLEAN,
          projectName \in ProjectNames, componentName \in ComponentNames,
          runName \in {r.name : r \in runsApi.runs} \cup {<<"r", "0">>} :
          runCall' = [op |-> "getWorkflowRun", service |-> service,
                      projectName |-> projectName, componentName |-> componentName,
                      runName |-> runName, ok |-> ok,
                      outcome |-> getWorkflowRun(ok, projectName,
                                                 componentName, runName)]
    /\ UNCHANGED <<earlierVars, callVars, authzVars, updateVars, actionVars, runsApi>>

\* WorkflowService.triggerBuild: the component's workflow name is fetched,
\* then the run is created with both labels and a name made of the
\* component name and the time.
TriggerBuild ==
    /\ runsApi.clock < MaxTriggers
    /\ \E ok \in BOOLEAN, projectName \in ProjectNames, componentName \in ComponentNames :
          LET created == WorkflowRun(componentName \o <<"-", ToString(runsApi.clock + 1)>>,
                                     <<componentName>>, <<projectName>>)
          IN /\ runsApi' = [runs |-> IF ok THEN runsApi.runs \cup {created}
                                     ELSE runsApi.runs,
                            clock |-> runsApi.clock + 1]
             /\ runCall' = [op |-> "triggerBuild", service |-> "ci",
                            projectName |-> projectName, componentName |-> componentName,
                            runName |-> created.name, ok |-> ok,
                            outcome |-> IF ok
                                        THEN [kind |-> "returned",
                                              value |-> transformWorkflowRun(created)]
                                        ELSE Thrown(PlainError,
                                                    <<"Failed", "to", "create",
                                                      "component", "workflow", "run">>)]
    /\ UNCHANGED <<earlierVars, callVars, authzVars, updateVars, actionVars>>

NextRuns == FetchBuilds \/ GetWorkflowRun \/ TriggerBuild

SpecRuns == InitRuns /\ [][NextRuns]_vars

(***************************************************************************)
(* Updates of a component: ComponentInfoService.patchComponent and         *)
(* TraitInfoService.updateComponentTraits.  Both GET the component, change *)
(* one field of its spec and PUT the whole component back.  Two updates of *)
(* the same component interleave at their awaits.  Whether the platform    *)
(* rejects a PUT whose metadata.resourceVersion is stale is not decided by *)
(* this repository: both platforms are modelled.                           *)
(***************************************************************************)
Updates == {1, 2}

TraitLists == {<<>>, <<"t1">>, <<"t2">>}

\* const updated = {...existing, spec: {...existing.spec!, autoDeploy}}
patchedComponent(existing, autoDeploy) ==
    [existing EXCEPT !.spec.autoDeploy = autoDeploy]

\* const updatedComponent = {metadata: component.metadata,
\*   spec: {...component.spec, owner: component.spec.owner, traits: traits.traits}}
componentWithTraits(component, traits) ==
    [metadata |-> component.metadata,
     spec |-> [component.spec EXCEPT !.traits = traits]]

InitUpdates ==
    /\ StatusIdle
    /\ GroupIdle
    /\ AggIdle
    /\ LookupIdle
    /\ CallsIdle
    /\ AuthzIdle
    /\ RunsIdle
    /\ ActionIdle
    /\ componentApi \in
          [stored : [metadata : [resourceVersion : {1}],
                     spec : [owner : {<<>>, <<"p">>}, autoDeploy : BOOLEAN,
                             traits : {<<>>, <<"t1">>}]],
           rejectsStale : BOOLEAN]
    /\ updates \in
          [Updates -> [op : {"patchComponent"}, autoDeploy : BOOLEAN, traits : {<<>>},
                       pc : {"called"}, existing : {<<>>}, replaced : {<<>>},
                       body : {<<>>}]
                      \cup [op : {"updateComponentTraits"}, autoDeploy : {FALSE},
                            traits : TraitLists, pc : {"called"}, existing : {<<>>},
                            replaced : {<<>>}, body : {<<>>}]]

\* The update's GET is answered; it builds the component to PUT and sends
\* it, or throws (failed GET; updateComponentTraits: no spec.owner).
ComponentGet(u) ==
    /\ updates[u].pc = "called"
    /\ \E ok \in BOOLEAN :
          LET existing == componentApi.stored
              call == updates[u]
          IN updates' = [updates EXCEPT ![u] =
                IF ~ok THEN [call EXCEPT !.pc = "thrown"]
                ELSE IF call.op = "patchComponent"
                THEN [call EXCEPT !.pc = "put", !.existing = <<existing>>,
                                  !.body = <<patchedComponent(existing, call.autoDeploy)>>]
                ELSE IF existing.spec.owner = <<>>
                THEN [call EXCEPT !.pc = "thrown", !.existing = <<existing>>]
                ELSE [call EXCEPT !.pc = "put", !.existing = <<existing>>,
                                  !.body = <<componentWithTraits(existing, call.traits)>>]]
    /\ UNCHANGED <<earlierVars, callVars, authzVars, runVars, actionVars, componentApi>>

\* The update's PUT is answered: the platform stores the body in place of
\* the component (under a new resourceVersion) and the update returns, or
\* the PUT fails and the update throws.
ComponentPut(u) ==
    /\ updates[u].pc = "put"
    /\ \E ok \in BOOLEAN :
          LET body == updates[u].body[1]
              stale == body.metadata.resourceVersion
                          # componentApi.stored.metadata.resourceVersion
          IN IF ok /\ ~(componentApi.rejectsStale /\ stale)
             THEN /\ componentApi' =
                        [componentApi EXCEPT !.stored =
                            [body EXCEPT !.metadata.resourceVersion =
                                componentApi.stored.metadata.resourceVersion + 1]]
                  /\ updates' = [updates EXCEPT ![u].pc = "returned",
                                                ![u].replaced = <<componentApi.stored>>]
             ELSE /\ updates' = [updates EXCEPT ![u].pc = "thrown"]
                  /\ UNCHANGED componentApi
    /\ UNCHANGED <<earlierVars, callVars, authzVars, runVars, actionVars>>

NextUpdates == \E u \in Updates : ComponentGet(u) \/ ComponentPut(u)

SpecUpdates == InitUpdates /\ [][NextUpdates]_vars

(***************************************************************************)
(* The scaffolder action that creates a ComponentType: it validates the    *)
(* YAML and the user token, POSTs the definition to the platform API,      *)
(* inserts the entity into the catalog at once and sets its outputs.       *)
(***************************************************************************)
\* What YAML.parse makes of yamlContent: it throws, or gives null, a
\* string, a list, or an object with or without kind and apiVersion (a
\* property of a string or list is undefined).
YamlDocuments ==
    [type : {"unparsable", "null", "string", "array"},
     kind : {undefined}, apiVersion : {undefined}]
    \cup [type : {"object"}, kind : {undefined, "ComponentType", "Component"},
          apiVersion : {undefined, "", "v1"}]

ActionInputs ==
    [yaml : YamlDocuments,
     authzEnabled : {<<>>, <<TRUE>>, <<FALSE>>},    \* openchoreo.features.auth.enabled
     token : {undefined, "", "token"},              \* secrets.OPENCHOREO_USER_TOKEN
     create : {"created", "created unnamed", "error", "throws"},
     catalog : {"inserted", "fails"}]

\* Variant: the request is sent with or without a token.
validateWithoutToken(input) ==
    IF input.yaml.type = "unparsable" THEN <<"Invalid", "YAML", "content">>
    ELSE IF input.yaml.type \in {"null", "string"}
    THEN <<"YAML", "content", "must", "be", "a", "valid", "object">>
    ELSE IF input.yaml.kind # "ComponentType"
    THEN <<"Kind", "must", "be", "ComponentType">>
    ELSE IF ~truthy(input.yaml.apiVersion)
    THEN <<"apiVersion", "is", "required">>
    ELSE <<>>

\* The handler's checks before the request: the error it throws, or <<>>.
validate(input) ==
    LET authzEnabled == IF input.authzEnabled = <<>> THEN TRUE
                        ELSE input.authzEnabled[1]
        token == IF authzEnabled THEN input.token ELSE undefined
    IN IF input.yaml.type = "unparsable" THEN <<"Invalid", "YAML", "content">>
       ELSE IF input.yaml.type \in {"null", "string"}
       THEN <<"YAML", "content", "must", "be", "a", "valid", "object">>
       ELSE IF input.yaml.kind # "ComponentType"
       THEN <<"Kind", "must", "be", "ComponentType">>
       ELSE IF ~truthy(input.yaml.apiVersion)
       THEN <<"apiVersion", "is", "required">>
       ELSE IF authzEnabled /\ ~truthy(token)
       THEN <<"User", "authentication", "token", "not", "available">>
       ELSE <<>>

InitAction ==
    /\ StatusIdle
    /\ GroupIdle
    /\ AggIdle
    /\ LookupIdle
    /\ CallsIdle
    /\ AuthzIdle
    /\ RunsIdle
    /\ UpdatesIdle
    /\ actionInput \in ActionInputs
    /\ actionRun = [pc |-> "called", requests |-> <<>>, errors |-> <<>>,
                    outputs |-> <<>>, thrown |-> <<>>]

\* handler(ctx) up to its await of the POST, or to the throw of a check.
HandlerCalled ==
    /\ actionRun.pc = "called"
    /\ LET error == validate(actionInput)
       IN actionRun' = IF error # <<>>
                       THEN [actionRun EXCEPT !.pc = "failed", !.thrown = <<error>>]
                       ELSE [actionRun EXCEPT !.pc = "awaitCreate",
                                              !.requests = <<"POST componenttypes">>]
    /\ UNCHANGED <<earlierVars, callVars, authzVars, runVars, updateVars, actionInput>>

\* The POST is answered.  On an error response or a throw the handler logs
\* and rethrows; otherwise it builds the entity and awaits its insertion
\* into the catalog.
CreateAnswered ==
    /\ actionRun.pc = "awaitCreate"
    /\ actionRun' =
          IF actionInput.create \in {"error", "throws"}
          THEN [actionRun EXCEPT !.pc = "failed",
                                 !.errors = Append(@, "Error creating ComponentType"),
                                 !.thrown = << <<"Failed", "to", "create", "ComponentType">> >>]
          ELSE [actionRun EXCEPT !.pc = "awaitCatalog",
                                 !.requests = Append(@, "insertEntity")]
    /\ UNCHANGED <<earlierVars, callVars, authzVars, runVars, updateVars, actionInput>>

\* The insertion is answered: a failure is logged; either way the outputs
\* are set and the handler returns.
CatalogAnswered ==
    /\ actionRun.pc = "awaitCatalog"
    /\ LET resultName == IF actionInput.create = "created" THEN <<"w">> ELSE <<>>
           namespaceName == NsA
       IN actionRun' =
             [actionRun EXCEPT
                 !.pc = "returned",
                 !.errors = IF actionInput.catalog = "fails"
                            THEN Append(@, "Failed to immediately add ComponentType to catalog")
                            ELSE @,
                 !.outputs = <<[componentTypeName |-> resultName,
                                namespaceName |-> namespaceName,
                                entityRef |-> <<"componenttype:">>
                                                 \o compositeKey(namespaceName, resultName)]>>]
    /\ UNCHANGED <<earlierVars, callVars, authzVars, runVars, updateVars, actionInput>>

NextAction == HandlerCalled \/ CreateAnswered \/ CatalogAnswered

SpecAction == InitAction /\ [][NextAction]_vars

(***************************************************************************)
(* What the claims about the status derivation talk about, read off the    *)
(* run record itself.  "Set"/"present" is JavaScript truthiness: an absent *)
(* or empty string counts as not set.                                      *)
(***************************************************************************)
Copies == {"backend", "ci", "generic"}
Derived == caller \in Copies

RunCompleted ==
    /\ run.status # <<>>
    /\ run.status[1].completedAt \notin {undefined, ""}
RunStarted ==
    /\ run.status # <<>>
    /\ run.status[1].startedAt \notin {undefined, ""}
RunTasks ==
    IF run.status = <<>> \/ run.status[1].tasks = <<>>
    THEN <<>> ELSE run.status[1].tasks[1]
RunConditions ==
    IF run.status = <<>> \/ run.status[1].conditions = <<>>
    THEN <<>> ELSE run.status[1].conditions[1]

PhaseIn(S) == \E i \in 1..Len(RunTasks) : RunTasks[i].phase \in S
AllSucceeded ==
    /\ Len(RunTasks) > 0
    /\ \A i \in 1..Len(RunTasks) : RunTasks[i].phase = "Succeeded"

ReadyIdx == {i \in 1..Len(RunConditions) : RunConditions[i].type = "Ready"}
HasReady == ReadyIdx # {}
FirstReadyIdx == CHOOSE i \in ReadyIdx : \A j \in ReadyIdx : i <= j
FirstReady == RunConditions[FirstReadyIdx]
Present(v) == v \notin {undefined, ""}
InProgress == {"Running", "Pending"}

\* What the conditions rule (step 2) yields from a Ready condition.
ConditionsRule(c) ==
    IF Present(c.reason) THEN c.reason
    ELSE IF c.status = "True" THEN "Succeeded" ELSE "Running"

\* C1: a completed run with a Failed or Error task is 'Failed', whatever its
\* conditions and startedAt are.
C1_CompletedFailedTask ==
    (Derived /\ RunCompleted /\ PhaseIn({"Failed", "Error"}))
        => derived.status = "Failed"

C1_Witness ==
    /\ Derived /\ RunCompleted
    /\ PhaseIn({"Error"})
    /\ HasReady /\ FirstReady.reason = "Cancelled" /\ FirstReady.status = "True"
    /\ derived.status = "Failed"

\* C2: a completed run without Failed/Error task takes the Ready condition's
\* reason verbatim when that reason is present and not Running/Pending, and
\* is 'Succeeded' in every other case.
C2_CompletedReasonOrSucceeded ==
    (Derived /\ RunCompleted /\ ~PhaseIn({"Failed", "Error"}))
        => derived.status =
              IF HasReady /\ Present(FirstReady.reason)
                          /\ FirstReady.reason \notin InProgress
              THEN FirstReady.reason
              ELSE "Succeeded"

C2_Witness ==
    /\ Derived /\ RunCompleted
    /\ ~PhaseIn({"Failed", "Error"})
    /\ HasReady /\ FirstReady.reason = "Cancelled"
    /\ derived.status = "Cancelled"

\* C3: once completedAt is set the derived status is never 'Running' nor
\* 'Pending', for every combination of conditions, task phases and startedAt.
C3_CompletedNeverInProgress ==
    (Derived /\ RunCompleted) => derived.status \notin InProgress

C3_Witness ==
    /\ Derived /\ RunCompleted
    /\ HasReady /\ FirstReady.reason = "Running" /\ FirstReady.status = "False"
    /\ AllSucceeded
    /\ derived.status = "Succeeded"

\* C4: a run that is not completed and has a Ready condition takes that
\* condition's reason if present, else 'Succeeded' when its status is 'True'
\* and 'Running' otherwise; task phases and startedAt play no part.
C4_ReadyConditionRule ==
    (Derived /\ ~RunCompleted /\ HasReady)
        => derived.status = ConditionsRule(FirstReady)

C4_Witness ==
    /\ Derived /\ ~RunCompleted
    /\ HasReady /\ FirstReady.reason = "Pending"
    /\ PhaseIn({"Failed"}) /\ RunStarted
    /\ derived.status = "Pending"

\* C5: a run that is not completed and has no Ready condition follows the
\* task/timing priority list: Failed/Error task, all tasks Succeeded, a
\* Running task, startedAt, else 'Pending'.
C5_FallbackPriority ==
    (Derived /\ ~RunCompleted /\ ~HasReady)
        => derived.status =
              IF PhaseIn({"Failed", "Error"}) THEN "Failed"
              ELSE IF AllSucceeded THEN "Succeeded"
              ELSE IF PhaseIn({"Running"}) THEN "Running"
              ELSE IF RunStarted THEN "Running"
              ELSE "Pending"

C5_Witness ==
    /\ Derived /\ ~RunCompleted /\ ~HasReady
    /\ run.status # <<>>
    /\ RunTasks = <<>> /\ ~RunStarted
    /\ derived.status = "Pending"

\* C6: the derivation is total: every run record, with any of status,
\* conditions, tasks, completedAt, startedAt, reason or phase missing, yields
\* one status string and raises no error.
StatusStrings ==
    {"Pending", "Running", "Succeeded", "Failed"}
        \cup {r \in Reasons : Present(r)}

C6_TotalOneStatusString ==
    Derived => /\ derived.status \in StatusStrings
               /\ derived.status \notin {undefined, TypeError}

C6_Witness ==
    /\ Derived
    /\ run.status # <<>>
    /\ run.status[1].tasks = <<>> /\ run.status[1].conditions = <<>>
    /\ run.status[1].startedAt = undefined
    /\ derived.status = "Pending"

\* C7 as stated: with no completedAt, an empty task list and a non-empty
\* conditions sequence, the conditions rule (step 2) produces the status and
\* the task/timing fallback (step 3) never does.
C7_NonEmptyConditionsGovern ==
    (Derived /\ ~RunCompleted /\ RunTasks = <<>> /\ RunConditions # <<>>)
        => derived.step = "2"

\* C7 amended: with no completedAt and an empty task list, the conditions
\* rule produces the status exactly when the conditions sequence holds a
\* Ready condition; a non-empty sequence without one leaves the status to
\* the fallback, which gives 'Running' if startedAt is set and 'Pending'
\* otherwise.
C7_ReadyConditionGoverns ==
    (Derived /\ ~RunCompleted /\ RunTasks = <<>> /\ RunConditions # <<>>)
        => IF HasReady
           THEN /\ derived.step = "2"
                /\ derived.status = ConditionsRule(FirstReady)
           ELSE /\ derived.step \in {"3d", "3e"}
                /\ derived.status = IF RunStarted THEN "Running" ELSE "Pending"

C7_Witness ==
    /\ Derived /\ ~RunCompleted
    /\ run.status # <<>> /\ run.status[1].tasks = << <<>> >>
    /\ HasReady /\ FirstReady.reason = "Pending"
    /\ derived.step = "2" /\ derived.status = "Pending"

\* The status a copy derives from a run record.
DeriveBy(c, r) ==
    CASE c = "backend" -> transformComponentWorkflowRun(r)
      [] c = "ci" -> deriveWorkflowRunStatus(r)
      [] c = "generic" -> deriveWorkflowRunStatusGeneric(r)

WithConditions(cs) ==
    [status |-> <<[run.status[1] EXCEPT !.conditions = <<cs>>]>>]
RemoveAt(cs, j) == SubSeq(cs, 1, j - 1) \o SubSeq(cs, j + 1, Len(cs))

\* The status the deriving copy gives the run with conditions cs instead.
StatusWith(cs) == DeriveBy(caller, WithConditions(cs)).status

\* C8: only the first Ready condition counts: removing a condition other
\* than the first Ready one, replacing a condition after the first Ready one
\* (a later Ready condition, or one of another type) by any condition, or
\* replacing a condition of another type by one of another type, never
\* changes the derived status.
C8_OnlyFirstReadyCounts ==
    (Derived /\ RunConditions # <<>>)
        => LET cs == RunConditions
               first == IF HasReady THEN FirstReadyIdx ELSE 0
               was == derived.status
           IN \A j \in 1..Len(cs) :
                /\ j # first => StatusWith(RemoveAt(cs, j)) = was
                /\ (first # 0 /\ j > first)
                      => \A c \in Conditions :
                            StatusWith([cs EXCEPT ![j] = c]) = was
                /\ cs[j].type # "Ready"
                      => \A c \in OtherConditions :
                            StatusWith([cs EXCEPT ![j] = c]) = was

C8_Witness ==
    /\ Derived /\ ~RunCompleted
    /\ Len(RunConditions) = 2
    /\ RunConditions[1].type = "Ready" /\ RunConditions[1].reason = "Cancelled"
    /\ RunConditions[2].type = "Ready" /\ RunConditions[2].reason = "Running"
    /\ derived.status = "Cancelled"

(***************************************************************************)
(* Claims about the grouping of environments by data plane.                *)
(***************************************************************************)
EnvKey(e) == e.namespaceName \o <<"/">> \o e.dataPlaneRef
EnvIdx == 1..Len(environments)
\* Where environment e sits in the groups: the (key, position) pairs.
PlacesOf(e) ==
    {<<k, j>> \in UNION {{k} \X (1..Len(environmentsByDataPlane[k])) :
                            k \in DOMAIN environmentsByDataPlane} :
        environmentsByDataPlane[k][j] = e}

\* C9: the groups partition the fetched environments: each environment sits
\* at exactly one place of exactly one group, also when its dataPlaneRef is
\* the empty string, no group holds anything else, and each group lists its
\* environments in the order of the fetched list.
C9_GroupingIsPartition ==
    returned =>
        /\ \A i \in EnvIdx : Cardinality(PlacesOf(environments[i])) = 1
        /\ \A k \in DOMAIN environmentsByDataPlane :
              environmentsByDataPlane[k] =
                  SelectSeq(environments, LAMBDA e : EnvKey(e) = k)
        /\ \A k \in DOMAIN environmentsByDataPlane :
              environmentsByDataPlane[k] # <<>>

C9_Witness ==
    /\ returned
    /\ Len(environments) >= 3
    /\ Cardinality(DOMAIN environmentsByDataPlane) >= 2
    /\ \E i \in EnvIdx : environments[i].dataPlaneRef = <<>>
    /\ \E k \in DOMAIN environmentsByDataPlane :
          Len(environmentsByDataPlane[k]) >= 2

InSeq(x, sq) == \E i \in 1..Len(sq) : sq[i] = x

\* C10 as stated: a data plane's environments list contains an environment
\* if and only if the environment's namespaceName is the data plane's and
\* its dataPlaneRef is the data plane's name, for all namespace and name
\* strings.
C10_NamespaceQualified ==
    returned =>
        \A d \in 1..Len(dataplanesWithEnvironments), i \in EnvIdx :
            LET D == dataplanesWithEnvironments[d]
                E == environments[i]
            IN InSeq(E, D.environments)
                  <=> (E.namespaceName = D.namespaceName /\ E.dataPlaneRef = D.name)

NoSlash(str) == \A i \in 1..Len(str) : str[i] # "/"

\* C10 amended: the equivalence holds for all namespace strings and all data
\* plane names and dataPlaneRef strings that contain no "/"; and, for all
\* strings, of two data planes with the same name in different namespaces
\* neither lists an environment of the other.
C10_NamespaceQualifiedSlashFree ==
    returned =>
        /\ \A d \in 1..Len(dataplanesWithEnvironments), i \in EnvIdx :
              LET D == dataplanesWithEnvironments[d]
                  E == environments[i]
              IN (NoSlash(D.name) /\ NoSlash(E.dataPlaneRef))
                    => (InSeq(E, D.environments)
                          <=> (/\ E.namespaceName = D.namespaceName
                               /\ E.dataPlaneRef = D.name))
        /\ \A d1, d2 \in 1..Len(dataplanesWithEnvironments), i \in EnvIdx :
              LET D1 == dataplanesWithEnvironments[d1]
                  D2 == dataplanesWithEnvironments[d2]
                  E == environments[i]
              IN (/\ D1.name = D2.name
                  /\ D1.namespaceName # D2.namespaceName
                  /\ E.namespaceName = D2.namespaceName
                  /\ E.dataPlaneRef = D2.name)
                    => (~InSeq(E, D1.environments) /\ InSeq(E, D2.environments))

C10_Witness ==
    /\ returned
    /\ Len(dataplanesWithEnvironments) = 2
    /\ dataplanesWithEnvironments[1].name = DpC
    /\ dataplanesWithEnvironments[2].name = DpC
    /\ dataplanesWithEnvironments[1].namespaceName = NsA
    /\ dataplanesWithEnvironments[2].namespaceName = NsAB
    /\ Len(dataplanesWithEnvironments[1].environments) = 1
    /\ Len(dataplanesWithEnvironments[2].environments) = 2
    /\ dataplanesWithEnvironments[1].environments[1].namespaceName = NsA
    /\ dataplanesWithEnvironments[2].environments[1].namespaceName = NsAB

(***************************************************************************)
(* What the claims about the batched aggregations talk about.              *)
(***************************************************************************)
ComponentIdx == 1..Len(components)
Returned == pc = "returned"

\* Every page of the component's lookup is answered with items.
FetchSucceeds(idx) ==
    \A page \in 1..Len(apiBindings[idx]) : apiBindings[idx][page].kind = "ok"

RECURSIVE itemsOfPages(_)
itemsOfPages(pages) ==
    IF pages = <<>> THEN <<>> ELSE Head(pages).items \o itemsOfPages(Tail(pages))

\* All bindings of the component, over all pages.
AllBindings(idx) == itemsOfPages(apiBindings[idx])

NamesEnvironment(binding) ==
    binding.environment # <<>> /\ binding.environment[1] # <<>>

\* The number of the component's bindings counted under the key.
BindingsUnder(idx, key) ==
    Len(SelectSeq(AllBindings(idx),
           LAMBDA b : /\ NamesEnvironment(b)
                      /\ compositeKey(components[idx].namespaceName,
                                      b.environment[1]) = key))

SumOfCounters(map) == sumOver(map, DOMAIN map)

\* C11 (as claimed): when every fetch succeeds, the counters returned by
\* fetchComponentCountsPerEnvironment add up to the number of bindings
\* fetched over all components.
C11_SumIsAllBindingsFetched ==
    (Returned /\ fn = "counts" /\ \A idx \in ComponentIdx : FetchSucceeds(idx))
        => SumOfCounters(result[1])
              = sumOver([idx \in ComponentIdx |-> Len(AllBindings(idx))], ComponentIdx)

\* C11 (amended): when every fetch succeeds, each counter of the returned map
\* is the number of fetched bindings under its key, one per binding and
\* without deduplication (three bindings of one component to one
\* environment count three), a key is present exactly when a binding falls
\* under it, and the counters add up to the number of fetched bindings that
\* name an environment.
C11_OnePerBindingWithEnvironment ==
    (Returned /\ fn = "counts" /\ \A idx \in ComponentIdx : FetchSucceeds(idx))
        => LET counted == [idx \in ComponentIdx |->
                              Len(SelectSeq(AllBindings(idx), NamesEnvironment))]
               keys == {compositeKey(components[idx].namespaceName, EnvName(e)) :
                            idx \in ComponentIdx, e \in 1..2}
           IN /\ DOMAIN result[1] \subseteq keys
              /\ \A key \in keys :
                    LET under == sumOver([idx \in ComponentIdx |->
                                             BindingsUnder(idx, key)], ComponentIdx)
                    IN IF under = 0
                       THEN key \notin DOMAIN result[1]
                       ELSE key \in DOMAIN result[1] /\ result[1][key] = under
              /\ SumOfCounters(result[1]) = sumOver(counted, ComponentIdx)

\* One component with three bindings to one environment: the counter is 3.
C11_Witness ==
    /\ Returned
    /\ fn = "counts"
    /\ Len(components) = 1
    /\ apiBindings[1] = ThreeToOneEnvironment
    /\ result[1] = (compositeKey(components[1].namespaceName, EnvName(1)) :> 3)

\* The component's existence lookup (first page, limit 1) returned a binding.
HasAnyBinding(idx) ==
    /\ apiBindings[idx][1].kind = "ok"
    /\ Len(apiBindings[idx][1].items) > 0

\* C12: fetchDistinctDeployedComponentsCount returns the number of distinct
\* namespace/project/component keys among the input components whose
\* existence lookup returned at least one binding, whatever the number of
\* bindings and of occurrences of a component in the input; it never exceeds
\* the number of distinct keys of the input.
C12_DistinctDeployedKeys ==
    (Returned /\ fn = "distinct")
        => /\ result[1] = Cardinality({componentKey(components[idx]) :
                              idx \in {k \in ComponentIdx : HasAnyBinding(k)}})
           /\ result[1] <= Cardinality({componentKey(components[idx]) :
                              idx \in ComponentIdx})

\* The same component twice in the input, with three bindings and with two
\* pages of bindings: it is counted once.
C12_Witness ==
    /\ Returned
    /\ fn = "distinct"
    /\ Len(components) = 2
    /\ components[1] = components[2]
    /\ apiBindings[1] = ThreeToOneEnvironment
    /\ apiBindings[2] = TwoPages
    /\ result[1] = 1

\* The number of ready bindings of a component whose lookup succeeds on
\* every page; 0 for a component whose lookup fails on some page.
ReadyBindings(idx) ==
    IF FetchSucceeds(idx)
    THEN Len(SelectSeq(AllBindings(idx),
                LAMBDA b : \E k \in 1..Len(b.conditions) :
                              /\ b.conditions[k].type = "Ready"
                              /\ b.conditions[k].status = "True"))
    ELSE 0

\* C13: fetchHealthyWorkloadCount returns a number, the sum over the
\* components whose lookup succeeded of their ready bindings; a component
\* whose lookup fails on any page adds 0, and the other components of its
\* batch and of the later batches are counted all the same.
C13_HealthySumOverSucceeded ==
    (Returned /\ fn = "healthy")
        => /\ result[1] \in Nat
           /\ result[1] = sumOver([idx \in ComponentIdx |-> ReadyBindings(idx)],
                                  ComponentIdx)

\* Twelve components, the first one's lookup fails on its second page: the
\* eleven others, of both batches, are counted.
C13_Witness ==
    /\ Returned
    /\ fn = "healthy"
    /\ Len(components) = batchSize + 2
    /\ apiBindings[1] = SecondPageFails
    /\ warnings = <<1>>
    /\ result[1] = batchSize + 1

\* The requests to the platform API that are open: one per dispatched,
\* unsettled component (the pages of one lookup are requested in turn).
OpenRequests == DOMAIN inflight

\* C14: at every moment of a call of one of the three batched aggregations
\* at most 10 requests to the platform API are in flight, whatever the
\* number of components and of pages per component.
C14_AtMostTenInFlight == Cardinality(OpenRequests) <= 10

\* Ten requests are open, one of them for a second page, while two more
\* components wait for the next batch.
C14_Witness ==
    /\ pc = "await"
    /\ Len(components) = 12
    /\ Cardinality(OpenRequests) = 10
    /\ \E idx \in OpenRequests : inflight[idx].page = 2

\* The batch of a component, counted from 0, and the components whose
\* lookup has been issued.
BatchNo(idx) == (idx - 1) \div 10
Dispatched == DOMAIN inflight \cup done

\* C15: no lookup of a component of batch N+1 is issued before every lookup
\* of batch N has settled, by success or by failure.
C15_BatchBarrier ==
    \A j \in Dispatched, k \in ComponentIdx :
        BatchNo(k) < BatchNo(j) => k \in done

\* A lookup of the first batch has failed and been logged, others of the
\* batch are still open, and no component of the second batch is dispatched.
C15_Witness ==
    /\ Len(components) = 12
    /\ pc = "await"
    /\ warnings = <<1>>
    /\ 1 \in done
    /\ inflight # <<>>
    /\ \A j \in Dispatched : BatchNo(j) = 0

\* The component's lookup fails: a request it issues throws or is answered
\* with an error response.  fetchDistinctDeployedComponentsCount issues the
\* request for the first page only.
LookupFails(idx) ==
    IF fn = "distinct"
    THEN apiBindings[idx][1].kind # "ok"
    ELSE ~FetchSucceeds(idx)

WarningsFor(idx) == Len(SelectSeq(warnings, LAMBDA w : w = idx))

\* C16 (as claimed; the code departs from it): in each of the three batched
\* aggregations a failing lookup, thrown or answered with an error response,
\* is logged as one warning for its component, and the aggregation still
\* returns.
C16_OneWarningPerFailure ==
    Returned => \A idx \in ComponentIdx :
                    WarningsFor(idx) = (IF LookupFails(idx) THEN 1 ELSE 0)

\* C17: every call of a batched aggregation eventually returns its
\* aggregate, given that every issued request is eventually answered and
\* every paged lookup reaches a page without cursor; when it returns, every
\* component's lookup has been dispatched and has settled, whichever
\* lookups failed.
C17_EventuallyReturnsAllSettled ==
    /\ <>Returned
    /\ [](Returned => (inflight = <<>> /\ done = ComponentIdx /\ result # <<>>))

\* A call over two batches has returned although a lookup failed.
C17_Witness ==
    /\ Returned
    /\ Len(components) = 12
    /\ warnings # <<>>
    /\ done = ComponentIdx
    /\ result # <<>>

(***************************************************************************)
(* Claims about failures of the entity-list requests.                      *)
(***************************************************************************)
\* C18 (as claimed; the code departs from it): when the namespace list or a
\* namespace's environment or data plane list cannot be fetched, the
\* operation raises an error: a list returned by fetchAllEnvironments or
\* fetchAllDataplanes is never a partial or empty stand-in for a failure, it
\* is the list obtained when every request succeeds.
C18_NoListInPlaceOfFailure ==
    /\ "environments" \in settled
          => environments = fetchAllEnvironments(TRUE, Namespaces)
    /\ "dataplanes" \in settled
          => dataplanes = fetchAllDataplanes(TRUE, Namespaces)

(***************************************************************************)
(* What the claims about the log and event lookups talk about.             *)
(***************************************************************************)
\* The lookup asked for the observer URL.
UrlRequested ==
    CASE lookupCaller = "fetchBuildLogs" -> TRUE
      [] lookupCaller = "fetchWorkflowRunLogs" -> ~lookupInput.hasLiveObservability
      [] lookupCaller = "fetchWorkflowRunEvents" ->
            lookupInput.runName # "" /\ ~lookupInput.hasLiveObservability
      [] lookupCaller = "getWorkflowRunLogs" -> lookupInput.run = "found"
      [] OTHER -> FALSE

UrlAnswered == lookupInput.url.thrown = <<>> /\ lookupInput.url.status = 200

HasObserverUrl ==
    /\ lookupInput.url.body.data # <<>>
    /\ lookupInput.url.body.data[1].observerUrl \notin {undefined, ""}

\* The observer-url request succeeded in everything but the URL: status 200
\* and, in the legacy envelope, the success flag and a payload; the payload
\* names no observer URL.
AnsweredWithoutObserverUrl ==
    /\ UrlAnswered
    /\ ~HasObserverUrl
    /\ lookupCaller # "getWorkflowRunLogs"
          => (lookupInput.url.body.success /\ lookupInput.url.body.data # <<>>)

\* C19: in fetchBuildLogs, fetchWorkflowRunLogs and getWorkflowRunLogs an
\* observer-url answer that is successful but names no observer URL makes
\* the call throw ObservabilityNotConfiguredError, which reaches the caller
\* as that kind; entries are returned only after a log request that was
\* answered with success.
C19_NotConfiguredIsDistinguished ==
    lookupCaller \in {"fetchBuildLogs", "fetchWorkflowRunLogs", "getWorkflowRunLogs"}
        => /\ (UrlRequested /\ AnsweredWithoutObserverUrl)
                 => outcome.kind = NotConfigured
           /\ outcome.kind = "returned"
                 => /\ lookupInput.log.thrown = <<>> /\ lookupInput.log.status = 200
                    /\ UrlRequested => (UrlAnswered /\ HasObserverUrl)

\* fetchWorkflowRunLogs for an older run; the observer-url answer is
\* successful and its observerUrl is the empty string.
C19_Witness ==
    /\ lookupCaller = "fetchWorkflowRunLogs"
    /\ ~lookupInput.hasLiveObservability
    /\ lookupInput.url = Answer(<<>>, 200, UrlBody(TRUE, <<[observerUrl |-> ""]>>))
    /\ outcome.kind = NotConfigured

\* The lookup sent its log or event request.
LogRequested ==
    IF lookupCaller \in {"fetchWorkflowRunLogs", "fetchWorkflowRunEvents"}
          /\ lookupInput.hasLiveObservability
    THEN lookupCaller = "fetchWorkflowRunEvents" => lookupInput.runName # ""
    ELSE /\ UrlRequested
         /\ UrlAnswered
         /\ HasObserverUrl
         /\ lookupCaller # "getWorkflowRunLogs" => lookupInput.url.body.success

Failed(answer) == answer.thrown # <<>> \/ answer.status # 200

\* A request of the lookup failed: it threw or was answered with an HTTP
\* error status.
TrueFailure ==
    \/ UrlRequested /\ Failed(lookupInput.url)
    \/ LogRequested /\ Failed(lookupInput.log)

\* C20 (as claimed): a failed observer-url or log request is reported as a
\* plain error, never as ObservabilityNotConfiguredError.
C20_FailureIsPlainError ==
    (lookupCaller # "none" /\ TrueFailure) => outcome.kind = PlainError

NotFound(answer) == answer.thrown = <<>> /\ answer.status = 404

\* The failures the code reports as "not configured": a 404 of the
\* observer's log or event endpoint (not of the openchoreo-api one), and in
\* getWorkflowRunLogs also a 404 of the observer-url request and a log
\* request that threw with ECONNREFUSED or "fetch failed".
ReportedAsNotConfigured ==
    \/ /\ lookupCaller \in {"fetchWorkflowRunLogs", "fetchWorkflowRunEvents"}
       /\ ~lookupInput.hasLiveObservability
       /\ LogRequested
       /\ NotFound(lookupInput.log)
    \/ /\ lookupCaller = "getWorkflowRunLogs"
       /\ UrlRequested
       /\ NotFound(lookupInput.url)
    \/ /\ lookupCaller = "getWorkflowRunLogs"
       /\ LogRequested
       /\ \/ NotFound(lookupInput.log)
          \/ lookupInput.log.thrown \in {<<Refused>>, <<FetchFailed>>}

\* C20 (amended): a failed observer-url or log request is reported as a
\* plain error, except for the failures listed above, which are reported as
\* ObservabilityNotConfiguredError; fetchBuildLogs reports every failed
\* request as a plain error.
C20_FailureIsPlainErrorUnlessNotFound ==
    (lookupCaller # "none" /\ TrueFailure)
        => outcome.kind = (IF ReportedAsNotConfigured THEN NotConfigured
                           ELSE PlainError)

\* fetchWorkflowRunLogs for an older run: the observer answers the log
\* request with status 500 and the caller gets a plain error.
C20_Witness ==
    /\ lookupCaller = "fetchWorkflowRunLogs"
    /\ LogRequested
    /\ ~lookupInput.hasLiveObservability
    /\ lookupInput.log = Answer(<<>>, 500, <<>>)
    /\ outcome.kind = PlainError

(***************************************************************************)
(* Agreement of the three copies of the derivation.                        *)
(***************************************************************************)
\* C22: whichever copy derived the status of the run record, the other two
\* copies derive the same status label from that record.
C22_CopiesAgree ==
    Derived => \A c \in Copies : DeriveBy(c, run).status = derived.status

\* A run whose status each of the three rules groups can decide was derived:
\* here by the Ready condition's reason, with tasks that say otherwise.
C22_Witness ==
    /\ caller = "backend"
    /\ derived.step = "2"
    /\ derived.status = "Cancelled"
    /\ PhaseIn({"Failed"})

(***************************************************************************)
(* The counter map under concurrent completion of a batch's fetches.       *)
(***************************************************************************)
\* The counters that the inputs alone determine: under each key, the
\* bindings of every component whose fetch succeeds on all its pages.
CountsOfInputs ==
    LET fetched == {idx \in ComponentIdx : FetchSucceeds(idx)}
        contribution(key) ==
            sumOver([idx \in fetched |-> BindingsUnder(idx, key)], fetched)
        keys == {key \in {compositeKey(components[idx].namespaceName, EnvName(e)) :
                              idx \in fetched, e \in 1..2} :
                    contribution(key) > 0}
    IN [key \in keys |-> contribution(key)]

\* C23: in whatever order the concurrent fetches of a batch complete, the map
\* returned by fetchComponentCountsPerEnvironment is the same one, fixed by
\* the inputs and the fetch outcomes: each counter is the sum of the
\* contributions of all components with bindings under its key.
C23_NoUpdateLost ==
    (Returned /\ fn = "counts") => result[1] = CountsOfInputs

\* Two components of one batch with bindings to the same
\* namespace/environment key: three and one, the counter is four.
C23_Witness ==
    /\ Returned
    /\ fn = "counts"
    /\ Len(components) = 2
    /\ components[1].namespaceName = components[2].namespaceName
    /\ apiBindings = <<ThreeToOneEnvironment, TwoPages>>
    /\ result[1][compositeKey(components[1].namespaceName, EnvName(1))] = 4

(***************************************************************************)
(* Two concurrent aggregation calls.                                       *)
(***************************************************************************)
\* The components of a call's argument, as indexes into the list.
ArgumentOf(c) == (calls[c].skip + 1)..Len(components)

\* What the aggregation returns for the call's argument when it runs alone:
\* the value the inputs and the fetch outcomes determine.
ResultAlone(c) ==
    LET arg == ArgumentOf(c)
        fetched == {g \in arg : FetchSucceeds(g)}
        under(key) == sumOver([g \in fetched |-> BindingsUnder(g, key)], fetched)
        keys == {key \in {compositeKey(components[g].namespaceName, EnvName(e)) :
                              g \in fetched, e \in 1..2} : under(key) > 0}
    IN CASE calls[c].fn = "counts" -> [key \in keys |-> under(key)]
         [] calls[c].fn = "distinct" ->
               Cardinality({componentKey(components[g]) :
                               g \in {k \in arg : HasAnyBinding(k)}})
         [] calls[c].fn = "healthy" ->
               sumOver([g \in arg |-> ReadyBindings(g)], arg)

\* C21: of two aggregation calls on one service instance that interleave at
\* their awaits, each returns the result it returns when run alone on its
\* inputs and fetch outcomes, and while a call waits its accumulator holds
\* nothing but contributions of its own components.
C21_CallsAreIsolated ==
    /\ \A c \in Calls :
          calls[c].pc = "returned" => calls[c].result = <<ResultAlone(c)>>
    /\ \A c \in Calls :
          calls[c].pc = "await" =>
             LET acc == accumulators[accumulatorOf(c)]
                 counts == acc.componentCountsByEnvironment
             IN CASE calls[c].fn = "counts" ->
                       /\ DOMAIN counts \subseteq DOMAIN ResultAlone(c)
                       /\ \A key \in DOMAIN counts : counts[key] <= ResultAlone(c)[key]
                  [] calls[c].fn = "distinct" ->
                       /\ acc.deployedComponents
                             \subseteq {componentKey(components[g]) : g \in ArgumentOf(c)}
                       /\ Cardinality(acc.deployedComponents) <= ResultAlone(c)
                  [] calls[c].fn = "healthy" ->
                       acc.healthyWorkloadCount <= ResultAlone(c)

\* Both calls count the bindings of the same two components and both have
\* returned, the second one having started while the first one was waiting
\* for an answer: each result is 3 + 1 under the one key.
C21_Witness ==
    /\ Len(components) = 2
    /\ apiBindings = <<ThreeToOneEnvironment, TwoPages>>
    /\ components[1].namespaceName = components[2].namespaceName
    /\ \A c \in Calls :
          /\ calls[c].fn = "counts"
          /\ calls[c].skip = 0
          /\ calls[c].pc = "returned"
          /\ calls[c].result[1][compositeKey(components[1].namespaceName, EnvName(1))] = 4

(***************************************************************************)
(* Force-deletion of a role.                                               *)
(***************************************************************************)
ForceDeleteReturned == forceDelete.pc = "returned"

\* The bindings listBindingsForRole returned to the call, cluster role
\* bindings first.
ListedBindings == forceDelete.clusterRoleBindings \o forceDelete.namespaceRoleBindings

\* The stored binding that a listed binding or a DELETE request names.
StoredAs(scope, name) ==
    CHOOSE k \in 1..Len(BindingUniverse) :
        BindingUniverse[k].scope = scope /\ BindingUniverse[k].name = name

\* The platform fails the deletion of the listed binding.
DeletionFails(b) == BindingUniverse[StoredAs(b.namespace, b.name)] \in authzApi.failing

RoleRequests ==
    {k \in 1..Len(deleteRequests) : deleteRequests[k].kind \in {"clusterrole", "role"}}

ElementsOf(seq) == {seq[k] : k \in 1..Len(seq)}

\* C24: the role's deletion is requested only after every binding deletion
\* has settled and only if all succeeded: it is the last request sent, no
\* binding deletion is open or failed then, and every listed binding was
\* deleted.  A call that returns after a failed binding deletion sent no
\* role deletion and reports roleDeleted = false; roleDeleted = true implies
\* that failedBindings is empty and the role's deletion succeeded.
C24_RoleDeletedLast ==
    /\ RoleRequests # {} =>
          /\ RoleRequests = {Len(deleteRequests)}
          /\ forceDelete.pc \in {"awaitRole", "returned", "thrown"}
          /\ forceDelete.open = {}
          /\ forceDelete.failedBindings = <<>>
          /\ Len(deleteRequests) = Len(ListedBindings) + 1
          /\ \A k \in 1..Len(ListedBindings) :
                /\ ~DeletionFails(ListedBindings[k])
                /\ BindingUniverse[StoredAs(ListedBindings[k].namespace,
                                            ListedBindings[k].name)]
                      \notin authzApi.bindings
    /\ (ForceDeleteReturned
          /\ \E k \in 1..Len(ListedBindings) : DeletionFails(ListedBindings[k]))
          => RoleRequests = {} /\ ~forceDelete.roleDeleted
    /\ forceDelete.roleDeleted =>
          /\ ForceDeleteReturned
          /\ forceDelete.failedBindings = <<>>
          /\ RoleRequests # {}
          /\ ~authzApi.roleFails

\* A cluster role with a cluster role binding that is deleted and a
\* namespace role binding whose deletion fails: the call returns
\* roleDeleted = false.
C24_Witness ==
    /\ ForceDeleteReturned
    /\ forceDelete.scope = "cluster"
    /\ Len(forceDelete.deletedBindings) = 1
    /\ Len(forceDelete.failedBindings) = 1
    /\ Len(forceDelete.clusterRoleBindings) = 1
    /\ ~forceDelete.roleDeleted

\* C25: in the result of a force-delete, every binding that
\* listBindingsForRole returned appears in exactly one of deletedBindings
\* and failedBindings, and in deletedBindings exactly when its own delete
\* request succeeded, in whatever order the deletions completed.
C25_EachBindingOnce ==
    ForceDeleteReturned =>
        LET reported == forceDelete.deletedBindings \o forceDelete.failedBindings
        IN /\ Len(reported) = Len(ListedBindings)
           /\ \A k \in 1..Len(ListedBindings) :
                 LET id == bindingId(ListedBindings[k])
                 IN /\ Cardinality({j \in 1..Len(reported) : reported[j] = id}) = 1
                    /\ id \in ElementsOf(forceDelete.deletedBindings)
                          <=> ~DeletionFails(ListedBindings[k])

\* Two namespace role bindings, the second one's deletion completes first
\* and succeeds, the first one's fails.
C25_Witness ==
    /\ ForceDeleteReturned
    /\ forceDelete.order = <<2, 1>>
    /\ forceDelete.status = <<"rejected", "fulfilled">>
    /\ forceDelete.deletedBindings = <<bindingId(forceDelete.namespaceRoleBindings[2])>>

\* The stored binding a DELETE request for a binding names.
Target(request) == BindingUniverse[StoredAs(request.scope, request.name)]

RunNamed(name) == {r \in runsApi.runs : r.name = name}

\* C27: getWorkflowRun(namespace, project, component, runName) returns a
\* run only if the fetched run's component label equals component and its
\* project label equals project; with either label missing or different it
\* throws and returns no run data.
C27_GetChecksBothLabels ==
    runCall.op = "getWorkflowRun" =>
        /\ runCall.outcome.kind \in {"returned", PlainError}
        /\ runCall.outcome.kind = "returned" =>
              \E r \in RunNamed(runCall.runName) :
                  /\ r.labels.component = <<runCall.componentName>>
                  /\ r.labels.project = <<runCall.projectName>>
                  /\ runCall.outcome.value = transformWorkflowRun(r)
        /\ \A r \in RunNamed(runCall.runName) :
              (r.labels.component # <<runCall.componentName>>
                  \/ r.labels.project # <<runCall.projectName>>)
                 => runCall.outcome.kind = PlainError /\ runCall.outcome.logs = <<>>

\* The run of component c that carries no project label is asked for as a
\* run of project p: the request is answered, the call throws.
C27_Witness ==
    /\ runCall.op = "getWorkflowRun"
    /\ runCall.ok
    /\ runCall.runName = <<"r", "3">>
    /\ runCall.componentName = <<"c">>
    /\ RunNamed(runCall.runName) # {}
    /\ runCall.outcome.kind = PlainError

\* C28 (as claimed): every run that fetchBuilds(namespace, project,
\* component) returns carries both labels of its arguments, and
\* getWorkflowRun with the same arguments and that run's name returns it.
C28_ListAndGetAgree ==
    (runCall.op = "fetchBuilds" /\ runCall.outcome.kind = "returned") =>
        \A build \in runCall.outcome.value :
            /\ build.componentName = runCall.componentName
            /\ build.projectName = runCall.projectName
            /\ getWorkflowRun(TRUE, runCall.projectName, runCall.componentName,
                              build.name)
                  = [kind |-> "returned", value |-> build]

(***************************************************************************)
(* Updates of a component.                                                 *)
(***************************************************************************)
\* C29 (as claimed): the component that a successful patchComponent stores
\* differs from the component stored immediately before its PUT only in
\* spec.autoDeploy, and the one updateComponentTraits stores only in
\* spec.traits, also when another update of the component ran between the
\* update's GET and its PUT.
C29_OnlyOwnFieldChanges ==
    \A u \in Updates :
        updates[u].pc = "returned" =>
            LET before == updates[u].replaced[1].spec
                after == updates[u].body[1].spec
            IN IF updates[u].op = "patchComponent"
               THEN [after EXCEPT !.autoDeploy = before.autoDeploy] = before
               ELSE [after EXCEPT !.traits = before.traits] = before

(***************************************************************************)
(* The ComponentType creation action.                                      *)
(***************************************************************************)
ActionEnded == actionRun.pc \in {"returned", "failed"}
CreateRequested == \E k \in 1..Len(actionRun.requests) :
                       actionRun.requests[k] = "POST componenttypes"
CreateSucceeded ==
    CreateRequested /\ actionRun.pc \notin {"awaitCreate"}
        /\ actionInput.create \in {"created", "created unnamed"}
OutputsSet ==
    /\ actionRun.outputs # <<>>
    /\ DOMAIN actionRun.outputs[1] = {"componentTypeName", "namespaceName", "entityRef"}

\* The input is one the claim names: the YAML is not an object, its kind is
\* not ComponentType, its apiVersion is missing, or authorization is enabled
\* (the default) and no user token is present.
Refusable ==
    \/ actionInput.yaml.type # "object"
    \/ actionInput.yaml.kind # "ComponentType"
    \/ actionInput.yaml.apiVersion \in {undefined, ""}
    \/ /\ actionInput.authzEnabled \in {<<>>, <<TRUE>>}
       /\ actionInput.token \in {undefined, ""}

====
